---- MODULE Spec2Model ----
(***************************************************************************)
(* State-machine model of the rockauto-api client: the part/result cache,  *)
(* the pricing cache and price history, the session authentication state,  *)
(* the order-status lookup and the pure helpers (cache key generation,     *)
(* order-number validation).                                               *)
(*                                                                         *)
(* Text is modelled as a sequence of one-character strings, so that        *)
(* lower(), isdigit(), len(), substring tests and "|".join() are computed  *)
(* character by character as Python computes them.  Time is a natural      *)
(* number of minutes; datetime.now() reads the variable now.               *)
(*                                                                         *)
(* The fields of every record are written in the order in which TLC keeps  *)
(* them (the order in which the names first occur in this module), so that *)
(* no record has to be re-sorted while two workers read it.                *)
(***************************************************************************)
EXTENDS Integers, Sequences, FiniteSets, TLC

VARIABLES
    arg,              \* input of the pure function under check
    out,              \* its result (NotRun before the call)
    info,             \* a stand-alone PriceInfo record
    added,            \* every snapshot passed to add_snapshot on info, in call order
    now,              \* datetime.now(), in minutes
    parts,            \* PartCache.parts: part number -> CachedPartInfo
    vehicle_results,  \* PartCache.vehicle_results: cache key -> CachedVehiclePartsResult
    max_parts,        \* PartCache.max_parts
    max_results,      \* PartCache.max_results
    half,             \* which dict of the PartCache the caller works on
    pricing_data,     \* PricingCache.pricing_data: part number -> PriceInfo
    max_entries,      \* PricingCache.max_entries
    ttl_minutes,      \* PricingCache.ttl_minutes
    cache_enabled,    \* RockAutoClient.cache_config.enabled
    has_cache,        \* RockAutoClient._part_cache is not None
    part_ttl_hours,   \* RockAutoClient.cache_config.part_ttl_hours
    result_ttl_hours, \* RockAutoClient.cache_config.result_ttl_hours
    manufacturer_cache, \* RockAutoClient._manufacturer_cache (Absent for None)
    part_group_cache, \* RockAutoClient._part_group_cache
    part_type_cache,  \* RockAutoClient._part_type_cache
    is_authenticated, \* BaseClient.is_authenticated
    user_email,       \* BaseClient.user_email
    cookies,          \* BaseClient.session.cookies: set of <<name, domain>>
    requests,         \* number of HTTP requests sent over session so far
    ret               \* what the latest operation was given and what it returned

pureVars    == <<arg, out>>
infoVars    == <<info, added>>
partVars    == <<parts, vehicle_results, max_parts, max_results, half>>
pricingVars == <<pricing_data, max_entries, ttl_minutes>>
configVars  == <<part_ttl_hours, result_ttl_hours>>
dropdownVars == <<manufacturer_cache, part_group_cache, part_type_cache>>
clientVars  == <<cache_enabled, has_cache, configVars, dropdownVars,
                 is_authenticated, user_email, cookies, requests>>
vars == <<arg, out, info, added, now, parts, vehicle_results, max_parts,
          max_results, half, pricing_data, max_entries, ttl_minutes, cache_enabled,
          has_cache, part_ttl_hours, result_ttl_hours, manufacturer_cache,
          part_group_cache, part_type_cache, is_authenticated, user_email,
          cookies, requests, ret>>

(***************************************************************************)
(* Text                                                                    *)
(***************************************************************************)
\* Python None, kept apart from every text by its multi-character element.
None == <<"<None>">>

NotRun == <<"<NotRun>">>

\* Python None where the value, when present, is an object (a record)
Absent == [absent |-> TRUE]

(***************************************************************************)
(* Initial values of the state a specification does not exercise           *)
(***************************************************************************)
EmptyMap == <<>>

NoRet == [op |-> "none"]

PureIdle == arg = None /\ out = NotRun

InfoIdle == info = [current_snapshot |-> Absent, price_history |-> <<>>,
                    max_history_entries |-> 50]
            /\ added = <<>>

PartIdle == parts = EmptyMap /\ vehicle_results = EmptyMap
            /\ max_parts = 1000 /\ max_results = 100 /\ half = "both"

PricingIdle == pricing_data = EmptyMap /\ max_entries = 5000 /\ ttl_minutes = 30

ConfigIdle == part_ttl_hours = 12 /\ result_ttl_hours = 12

DropdownIdle == manufacturer_cache = Absent /\ part_group_cache = Absent
                /\ part_type_cache = Absent

ClientIdle == cache_enabled = TRUE /\ has_cache = TRUE
              /\ ConfigIdle /\ DropdownIdle
              /\ is_authenticated = FALSE /\ user_email = None
              /\ cookies = {} /\ requests = 0

UpperAlpha == <<"A","B","C","D","E","F","G","H","I","J","K","L","M",
                "N","O","P","Q","R","S","T","U","V","W","X","Y","Z">>

LowerAlpha == <<"a","b","c","d","e","f","g","h","i","j","k","l","m",
                "n","o","p","q","r","s","t","u","v","w","x","y","z">>

Digits == {"0","1","2","3","4","5","6","7","8","9"}

\* str.lower() on one character
LowerOf == [ c \in { UpperAlpha[i] : i \in 1..Len(UpperAlpha) } |->
                LowerAlpha[CHOOSE i \in 1..Len(UpperAlpha) : UpperAlpha[i] = c] ]

LowerChar(c) == IF c \in DOMAIN LowerOf THEN LowerOf[c] ELSE c

\* str.lower()
Lower(s) == [i \in 1..Len(s) |-> LowerChar(s[i])]

\* `sub in s` for two texts
Contains(sub, s) ==
    \E i \in 1..(Len(s) - Len(sub) + 1) : SubSeq(s, i, i + Len(sub) - 1) = sub

\* truth value of an Optional[str]: None and "" are falsy
Truthy(s) == s # None /\ Len(s) > 0

\* sep.join(list)
RECURSIVE Join(_, _)
Join(sep, list) ==
    IF Len(list) = 0 THEN <<>>
    ELSE IF Len(list) = 1 THEN list[1]
    ELSE list[1] \o sep \o Join(sep, Tail(list))

(***************************************************************************)
(* Cache key generation (PartCache.generate_vehicle_cache_key)             *)
(***************************************************************************)
generate_vehicle_cache_key(make, model, year, engine, category) ==
    LET key_parts == <<Lower(make), Lower(model), year>>
                     \o (IF Truthy(engine) THEN <<Lower(engine)>> ELSE <<>>)
                     \o (IF Truthy(category) THEN <<Lower(category)>> ELSE <<>>)
    IN  Join(<<"|">>, key_parts)

(***************************************************************************)
(* Order-number validation (OrderLookupRequest, ExternalOrderRequest,      *)
(* OrderStatus share one validator body)                                   *)
(***************************************************************************)
\* str.isdigit(): non-empty and every character a digit
IsDigit(v) == Len(v) > 0 /\ \A i \in 1..Len(v) : v[i] \in Digits

\* the longest order number accepted
MaxOrderDigits == 12

\* the mutant has the off-by-one length test (>= instead of >)
OrderLookupRequest_validate_OffByOne(v) ==
    IF Len(v) = 0 \/ ~IsDigit(v) THEN "ValueError"
    ELSE IF Len(v) >= MaxOrderDigits THEN "ValueError"
    ELSE "ok"

\* Each validator: "ok" when v is returned, "ValueError" when it raises.
OrderLookupRequest_validate(v) ==
    IF Len(v) = 0 \/ ~IsDigit(v) THEN "ValueError"
    ELSE IF Len(v) > MaxOrderDigits THEN "ValueError"
    ELSE "ok"

ExternalOrderRequest_validate(v) ==
    IF Len(v) = 0 \/ ~IsDigit(v) THEN "ValueError"
    ELSE IF Len(v) > MaxOrderDigits THEN "ValueError"
    ELSE "ok"

OrderStatus_validate(v) ==
    IF Len(v) = 0 \/ ~IsDigit(v) THEN "ValueError"
    ELSE IF Len(v) > MaxOrderDigits THEN "ValueError"
    ELSE "ok"

(***************************************************************************)
(* Python dict: a sequence of [key, val] items in insertion order          *)
(***************************************************************************)
DictKeys(d) == {d[i].key : i \in 1..Len(d)}

DictIndex(d, k) == CHOOSE i \in 1..Len(d) : d[i].key = k

\* d[k], for k in d
DictGet(d, k) == d[DictIndex(d, k)].val

\* d[k] = v: a present key keeps its position, a new key goes last
DictSet(d, k, v) ==
    IF k \in DictKeys(d)
    THEN [d EXCEPT ![DictIndex(d, k)] = [key |-> k, val |-> v]]
    ELSE Append(d, [key |-> k, val |-> v])

\* del d[k], for k in d
DictDel(d, k) ==
    LET i == DictIndex(d, k)
    IN  SubSeq(d, 1, i - 1) \o SubSeq(d, i + 1, Len(d))

(***************************************************************************)
(* PartCache: parts and vehicle results with access metadata               *)
(***************************************************************************)
\* default ttl_hours of CachedPartInfo.is_expired
PartTtlHours == 12

\* default ttl_hours of CachedVehiclePartsResult.is_expired
ResultTtlHours == 12

MinutesPerHour == 60

\* CachedPartInfo.create
CachedPartInfo_create(part_info) ==
    [part_info |-> part_info, cached_at |-> now, access_count |-> 1,
     last_accessed |-> now]

\* This variant of access also restarts the entry's age.
CachedPartInfo_access_Refresh(e) ==
    [e EXCEPT !.access_count = e.access_count + 1, !.last_accessed = now,
              !.cached_at = now]

\* CachedPartInfo.access: the entry after the call (it returns part_info)
CachedPartInfo_access(e) ==
    [e EXCEPT !.access_count = e.access_count + 1, !.last_accessed = now]

\* CachedPartInfo.is_expired
CachedPartInfo_is_expired(e, ttl_hours) ==
    now - e.cached_at > ttl_hours * MinutesPerHour

\* CachedVehiclePartsResult.create
CachedVehiclePartsResult_create(result, cache_key) ==
    [cached_at |-> now, access_count |-> 1, last_accessed |-> now,
     result |-> result, cache_key |-> cache_key]

\* CachedVehiclePartsResult.access: the entry after the call
CachedVehiclePartsResult_access(e) ==
    [e EXCEPT !.access_count = e.access_count + 1, !.last_accessed = now]

\* CachedVehiclePartsResult.is_expired
CachedVehiclePartsResult_is_expired(e, ttl_hours) ==
    now - e.cached_at > ttl_hours * MinutesPerHour

\* This variant takes the entry cached first for the oldest.
OldestKey_ByCachedAt(d) ==
    LET i == CHOOSE i \in 1..Len(d) :
                 /\ \A j \in 1..Len(d) : d[i].val.cached_at <= d[j].val.cached_at
                 /\ \A j \in 1..(i - 1) : d[j].val.cached_at > d[i].val.cached_at
    IN  d[i].key

\* min(d.keys(), key=last_accessed): the first key, in dict order, of the
\* smallest last_accessed
OldestKey(d) ==
    LET i == CHOOSE i \in 1..Len(d) :
                 /\ \A j \in 1..Len(d) : d[i].val.last_accessed <= d[j].val.last_accessed
                 /\ \A j \in 1..(i - 1) : d[j].val.last_accessed > d[i].val.last_accessed
    IN  d[i].key

\* PartCache.get_part: [dict |-> parts afterwards, value |-> what is returned]
get_part(d, part_number) ==
    IF part_number \in DictKeys(d)
       /\ ~CachedPartInfo_is_expired(DictGet(d, part_number), PartTtlHours)
    THEN [dict  |-> DictSet(d, part_number, CachedPartInfo_access(DictGet(d, part_number))),
          value |-> DictGet(d, part_number).part_info]
    ELSE IF part_number \in DictKeys(d)
    THEN [dict |-> DictDel(d, part_number), value |-> Absent]
    ELSE [dict |-> d, value |-> Absent]

\* PartCache._evict_oldest_part
evict_oldest_part(d) == IF Len(d) = 0 THEN d ELSE DictDel(d, OldestKey(d))

\* PartCache.cache_part: parts afterwards
cache_part(d, maxp, part_info) ==
    LET room == IF Len(d) >= maxp THEN evict_oldest_part(d) ELSE d
    IN  DictSet(room, part_info.part_number, CachedPartInfo_create(part_info))

\* PartCache.get_vehicle_result
get_vehicle_result(d, cache_key) ==
    IF cache_key \in DictKeys(d)
       /\ ~CachedVehiclePartsResult_is_expired(DictGet(d, cache_key), ResultTtlHours)
    THEN [dict  |-> DictSet(d, cache_key, CachedVehiclePartsResult_access(DictGet(d, cache_key))),
          value |-> DictGet(d, cache_key).result]
    ELSE IF cache_key \in DictKeys(d)
    THEN [dict |-> DictDel(d, cache_key), value |-> Absent]
    ELSE [dict |-> d, value |-> Absent]

\* PartCache._evict_oldest_result
evict_oldest_result(d) == IF Len(d) = 0 THEN d ELSE DictDel(d, OldestKey(d))

\* PartCache.cache_vehicle_result: vehicle_results afterwards
cache_vehicle_result(d, maxr, result, cache_key) ==
    LET room == IF Len(d) >= maxr THEN evict_oldest_result(d) ELSE d
    IN  DictSet(room, cache_key, CachedVehiclePartsResult_create(result, cache_key))

\* This variant also removes the entries whose age is exactly the TTL.
clear_expired_AtTtl(dp, dr) ==
    LET keptp == SelectSeq(dp, LAMBDA it : now - it.val.cached_at < PartTtlHours * MinutesPerHour)
        keptr == SelectSeq(dr, LAMBDA it : now - it.val.cached_at < ResultTtlHours * MinutesPerHour)
    IN  [parts |-> keptp, results |-> keptr,
         counts |-> <<Len(dp) - Len(keptp), Len(dr) - Len(keptr)>>]

\* PartCache.clear_expired: both dicts afterwards and the two counts returned
clear_expired(dp, dr) ==
    LET keptp == SelectSeq(dp, LAMBDA it : ~CachedPartInfo_is_expired(it.val, PartTtlHours))
        keptr == SelectSeq(dr, LAMBDA it : ~CachedVehiclePartsResult_is_expired(it.val, ResultTtlHours))
    IN  [parts |-> keptp, results |-> keptr,
         counts |-> <<Len(dp) - Len(keptp), Len(dr) - Len(keptr)>>]

(***************************************************************************)
(* PriceInfo (price history of one part)                                   *)
(***************************************************************************)
\* list[start:] as Python slices it: a negative start counts from the end
PySliceFrom(list, start) ==
    LET n    == Len(list)
        from == IF start < 0
                THEN (IF n + start < 0 THEN 0 ELSE n + start)
                ELSE (IF start > n THEN n ELSE start)
    IN  SubSeq(list, from + 1, n)

\* PriceInfo(part_number=...) with no snapshot yet
NewPriceInfo(max_history) ==
    [current_snapshot |-> Absent, price_history |-> <<>>,
     max_history_entries |-> max_history]

\* the mutant trims the wrong end: it keeps the oldest entries
add_snapshot_KeepOldest(pi, snapshot) ==
    LET appended == Append(pi.price_history, snapshot)
    IN  [pi EXCEPT !.current_snapshot = snapshot,
                   !.price_history =
                       IF Len(appended) > pi.max_history_entries
                       THEN SubSeq(appended, 1, pi.max_history_entries)
                       ELSE appended]

\* PriceInfo.add_snapshot: the record after the call
add_snapshot(pi, snapshot) ==
    LET appended == Append(pi.price_history, snapshot)
    IN  [pi EXCEPT !.current_snapshot = snapshot,
                   !.price_history =
                       IF Len(appended) > pi.max_history_entries
                       THEN PySliceFrom(appended, 0 - pi.max_history_entries)
                       ELSE appended]

(***************************************************************************)
(* PricingCache: PriceInfo by part number                                  *)
(***************************************************************************)
\* max_history_entries of a PriceInfo built without one
DefaultMaxHistory == 50

\* PriceStockSnapshot.is_recent: age.total_seconds() < max_age_minutes * 60
is_recent(snapshot, max_age_minutes) ==
    (now - snapshot.time_collected) * 60 < max_age_minutes * 60

\* PriceInfo.has_recent_data
has_recent_data(pi, max_age_minutes) ==
    pi.current_snapshot # Absent /\ is_recent(pi.current_snapshot, max_age_minutes)

\* the sort key of _evict_old_entries; datetime.min precedes every time
CollectedAt(pi) ==
    IF pi.current_snapshot # Absent THEN pi.current_snapshot.time_collected ELSE 0 - 1

\* sorted(d.items(), key=CollectedAt): stable, ties stay in dict order
SortedByCollected(d) ==
    LET rank(i) == Cardinality({j \in 1..Len(d) :
                       \/ CollectedAt(d[j].val) < CollectedAt(d[i].val)
                       \/ CollectedAt(d[j].val) = CollectedAt(d[i].val) /\ j < i}) + 1
    IN  [r \in 1..Len(d) |-> d[CHOOSE i \in 1..Len(d) : rank(i) = r]]

\* This variant removes one entry whatever the size.
evict_old_entries_One(d) ==
    LET sorted_items == SortedByCollected(d)
        gone == {sorted_items[i].key : i \in 1..1}
    IN  SelectSeq(d, LAMBDA it : it.key \notin gone)

\* PricingCache._evict_old_entries
evict_old_entries(d) ==
    LET sorted_items      == SortedByCollected(d)
        fifth             == Len(sorted_items) \div 5
        entries_to_remove == IF fifth > 1 THEN fifth ELSE 1
        gone == {sorted_items[i].key : i \in 1..entries_to_remove}
    IN  SelectSeq(d, LAMBDA it : it.key \notin gone)

\* PricingCache.cache_pricing: pricing_data afterwards
cache_pricing(d, maxe, part_number, price_info) ==
    LET stored == DictSet(d, part_number, price_info)
    IN  IF Len(stored) > maxe THEN evict_old_entries(stored) ELSE stored

\* PricingCache.get_pricing: [dict |-> pricing_data afterwards, value |-> returned]
get_pricing(d, part_number, ttl) ==
    IF part_number \in DictKeys(d) /\ has_recent_data(DictGet(d, part_number), ttl)
    THEN [dict |-> d, value |-> DictGet(d, part_number)]
    ELSE IF part_number \in DictKeys(d)
    THEN [dict |-> DictDel(d, part_number), value |-> Absent]
    ELSE [dict |-> d, value |-> Absent]

\* PricingCache.update_pricing: pricing_data afterwards
update_pricing(d, part_number, snapshot) ==
    LET price_info == IF part_number \in DictKeys(d) THEN DictGet(d, part_number)
                      ELSE NewPriceInfo(DefaultMaxHistory)
    IN  DictSet(d, part_number, add_snapshot(price_info, snapshot))

\* PricingCache.cleanup_expired: pricing_data afterwards and the count returned
cleanup_expired(d, ttl) ==
    LET kept == SelectSeq(d, LAMBDA it : has_recent_data(it.val, ttl))
    IN  [dict |-> kept, count |-> Len(d) - Len(kept)]

(***************************************************************************)
(* Specification SpecPriceInfo: add_snapshot on one PriceInfo record       *)
(***************************************************************************)
MaxHist == 3

MaxAdds == 5

Prices == {<<"$","1">>, <<"$","2">>, None}

\* PriceStockSnapshot(price=p), collected at datetime.now()
Snapshot(p) == [time_collected |-> now, price |-> p]

PriceInfoInit ==
    /\ info \in {NewPriceInfo(m) : m \in 0..MaxHist}
    /\ added = <<>>
    /\ PureIdle /\ PartIdle /\ PricingIdle /\ ClientIdle
    /\ now = 0 /\ ret = NoRet

AddSnapshot ==
    /\ Len(added) < MaxAdds
    /\ \E p \in Prices :
          /\ info' = add_snapshot(info, Snapshot(p))
          /\ added' = Append(added, Snapshot(p))
    /\ UNCHANGED <<pureVars, now, partVars, pricingVars, clientVars, ret>>

PriceInfoNext == AddSnapshot

SpecPriceInfo == PriceInfoInit /\ [][PriceInfoNext]_vars

\* C8: len(price_history) <= max_history_entries after any number of
\* add_snapshot calls, for every value of max_history_entries.
C8_HistoryBounded == Len(info.price_history) <= info.max_history_entries

\* C9: current_snapshot is absent until the first add_snapshot and afterwards
\* is the most recently added snapshot, which is also the last element of
\* price_history; the history is what is left of the added snapshots after
\* dropping from the oldest end, in the order they were added.
C9_CurrentIsLatest ==
    /\ (added = <<>>) => (info.current_snapshot = Absent /\ info.price_history = <<>>)
    /\ (added # <<>>) =>
          /\ info.current_snapshot = added[Len(added)]
          /\ info.price_history # <<>>
          /\ info.price_history[Len(info.price_history)] = info.current_snapshot
          /\ \E dropped \in 0..Len(added) :
                info.price_history = SubSeq(added, dropped + 1, Len(added))

\* the history has overflowed: older snapshots were dropped, newer ones kept
C9_Witness ==
    /\ Len(added) > Len(info.price_history)
    /\ Len(info.price_history) >= 2
    /\ info.price_history[1] # info.price_history[2]

(***************************************************************************)
(* Specification SpecKey: two calls of generate_vehicle_cache_key          *)
(***************************************************************************)
T_Honda == <<"H","o","n","d","a">>
T_HONDA == <<"H","O","N","D","A">>
T_Civic == <<"C","i","v","i","c">>
T_CIVIC == <<"C","I","V","I","C">>
T_2020  == <<"2","0","2","0">>

KeyArgs ==
    [make     : {T_Honda, T_HONDA},
     model    : {T_Civic, T_CIVIC},
     year     : {T_2020, T_2020 \o <<"a">>, T_2020 \o <<"A">>},
     engine   : {None, <<>>, <<"e","1">>, <<"E","1">>},
     category : {None, <<"B","r","a","k","e">>, <<"B","R","A","K","E">>}]

KeyOf(a) == generate_vehicle_cache_key(a.make, a.model, a.year, a.engine, a.category)

KeyInit ==
    /\ arg \in [a : KeyArgs, b : KeyArgs]
    /\ out = NotRun
    /\ InfoIdle /\ PartIdle /\ PricingIdle /\ ClientIdle
    /\ now = 0 /\ ret = NoRet

GenerateKeys ==
    /\ out = NotRun
    /\ out' = <<KeyOf(arg.a), KeyOf(arg.b)>>
    /\ UNCHANGED <<arg, infoVars, now, partVars, pricingVars, clientVars, ret>>

KeyNext == GenerateKeys

SpecKey == KeyInit /\ [][KeyNext]_vars

\* two characters are the same letter in either case, or the same character
SameLetter(x, y) ==
    \/ x = y
    \/ \E i \in 1..Len(UpperAlpha) :
          \/ x = UpperAlpha[i] /\ y = LowerAlpha[i]
          \/ y = UpperAlpha[i] /\ x = LowerAlpha[i]

\* two Optional[str] values differ at most in letter case
SameTextUpToCase(s, t) ==
    IF s = None \/ t = None THEN s = t
    ELSE Len(s) = Len(t) /\ \A i \in 1..Len(s) : SameLetter(s[i], t[i])

SameArgsUpToCase(a, b) ==
    /\ SameTextUpToCase(a.make, b.make)
    /\ SameTextUpToCase(a.model, b.model)
    /\ SameTextUpToCase(a.year, b.year)
    /\ SameTextUpToCase(a.engine, b.engine)
    /\ SameTextUpToCase(a.category, b.category)

\* C10: generate_vehicle_cache_key returns the same key for any two argument
\* tuples (make, model, year, carcode, category) that differ only in letter case.
C10_KeyCaseInsensitive ==
    (out # NotRun /\ SameArgsUpToCase(arg.a, arg.b)) => out[1] = out[2]

\* C10, the part that holds: with the year spelled identically, arguments
\* that differ only in the letter case of make, model, carcode and category
\* get the same key.
C10_KeyCaseInsensitiveSameYear ==
    (out # NotRun /\ SameArgsUpToCase(arg.a, arg.b) /\ arg.a.year = arg.b.year)
        => out[1] = out[2]

(***************************************************************************)
(* Specification SpecValidate: the three order-number validators           *)
(***************************************************************************)
MaxShortLen == 3

MaxLongLen == 14

ShortAlphabet == {"1", "7", "a", " "}

RECURSIVE Repeat(_, _)
Repeat(c, n) == IF n = 0 THEN <<>> ELSE <<c>> \o Repeat(c, n - 1)

OrderInputs ==
    UNION {[1..n -> ShortAlphabet] : n \in 0..MaxShortLen}
    \cup {Repeat("3", n) : n \in 1..MaxLongLen}
    \cup {Repeat("3", n) \o <<"x">> : n \in 1..MaxLongLen}
    \cup {<<"1","2","3","4","5","6","7","8","9">>, <<"1","2","a","3">>,
          <<"1","2","3","4","5","6","7","8","9","0","1","2","3">>}

ValidateInit ==
    /\ arg \in OrderInputs
    /\ out = NotRun
    /\ InfoIdle /\ PartIdle /\ PricingIdle /\ ClientIdle
    /\ now = 0 /\ ret = NoRet

Validate ==
    /\ out = NotRun
    /\ out' = <<OrderLookupRequest_validate(arg), ExternalOrderRequest_validate(arg),
                OrderStatus_validate(arg)>>
    /\ UNCHANGED <<arg, infoVars, now, partVars, pricingVars, clientVars, ret>>

ValidateNext == Validate

SpecValidate == ValidateInit /\ [][ValidateNext]_vars

\* what the claim calls a valid order number, stated on the characters
WellFormedOrderNumber(v) ==
    /\ Len(v) >= 1
    /\ Len(v) <= 12
    /\ \A i \in 1..Len(v) : v[i] \in {"0","1","2","3","4","5","6","7","8","9"}

\* C6: each of the three validators accepts a string exactly when it is
\* non-empty, all digits and at most 12 characters long; "123456789" is
\* accepted, "12a3" and a 13-digit string are rejected.
C6_OrderNumberValidation ==
    out # NotRun =>
        /\ \A i \in 1..3 : (out[i] = "ok") <=> WellFormedOrderNumber(arg)
        /\ arg = <<"1","2","3","4","5","6","7","8","9">> => out = <<"ok", "ok", "ok">>
        /\ arg = <<"1","2","a","3">> => out = <<"ValueError", "ValueError", "ValueError">>
        /\ Len(arg) = 13 => out = <<"ValueError", "ValueError", "ValueError">>

\* a 12-digit number has been validated and accepted by all three
C6_Witness == out = <<"ok", "ok", "ok">> /\ Len(arg) = 12

(***************************************************************************)
(* The clock                                                               *)
(***************************************************************************)
MaxMinuteTicks == 1

\* the long step of the clock: the default TTL of the part cache
LongTick == PartTtlHours * MinutesPerHour

TickMinute ==
    /\ now % LongTick < MaxMinuteTicks
    /\ now' = now + 1
    /\ UNCHANGED <<pureVars, infoVars, partVars, pricingVars, clientVars, ret>>

TickLong ==
    /\ now < LongTick
    /\ now' = now + LongTick
    /\ UNCHANGED <<pureVars, infoVars, partVars, pricingVars, clientVars, ret>>

(***************************************************************************)
(* Specification SpecPartCache: the PartCache operations                   *)
(***************************************************************************)
MaxCap == 2

MaxAccess == 2

PartNumbers == {"P1", "P2", "P3"}

ResultKeys == {"k1", "k2", "k3"}

PartInfoOf(pn) == [part_number |-> pn, name |-> "part"]

ResultOf(key) == [parts |-> <<>>, category |-> key, count |-> 0]

PartCacheInit ==
    /\ parts = <<>> /\ vehicle_results = <<>>
    /\ max_parts \in 1..MaxCap /\ max_results \in 1..MaxCap
    /\ half \in {"parts", "results"}
    /\ half = "parts" => max_results = MaxCap
    /\ half = "results" => max_parts = MaxCap
    /\ now = 0 /\ ret = NoRet
    /\ PureIdle /\ InfoIdle /\ PricingIdle /\ ClientIdle

GetPart ==
    \E pn \in PartNumbers :
        /\ half = "parts"
        /\ pn \in DictKeys(parts) => DictGet(parts, pn).access_count < MaxAccess
        /\ parts' = get_part(parts, pn).dict
        /\ ret' = [op |-> "get_part", key |-> pn, value |-> get_part(parts, pn).value]
        /\ UNCHANGED <<pureVars, infoVars, now, vehicle_results, max_parts,
                       max_results, half, pricingVars, clientVars>>

CachePart ==
    \E pn \in PartNumbers :
        /\ half = "parts"
        /\ parts' = cache_part(parts, max_parts, PartInfoOf(pn))
        /\ ret' = [op |-> "cache_part", key |-> pn, value |-> None,
                   dropped |-> DictKeys(parts) \ DictKeys(parts')]
        /\ UNCHANGED <<pureVars, infoVars, now, vehicle_results, max_parts,
                       max_results, half, pricingVars, clientVars>>

GetVehicleResult ==
    \E k \in ResultKeys :
        /\ half = "results"
        /\ k \in DictKeys(vehicle_results)
              => DictGet(vehicle_results, k).access_count < MaxAccess
        /\ vehicle_results' = get_vehicle_result(vehicle_results, k).dict
        /\ ret' = [op |-> "get_vehicle_result", key |-> k,
                   value |-> get_vehicle_result(vehicle_results, k).value]
        /\ UNCHANGED <<pureVars, infoVars, now, parts, max_parts, max_results,
                       half, pricingVars, clientVars>>

CacheVehicleResult ==
    \E k \in ResultKeys :
        /\ half = "results"
        /\ vehicle_results' = cache_vehicle_result(vehicle_results, max_results, ResultOf(k), k)
        /\ ret' = [op |-> "cache_vehicle_result", key |-> k, value |-> None,
                   dropped |-> DictKeys(vehicle_results) \ DictKeys(vehicle_results')]
        /\ UNCHANGED <<pureVars, infoVars, now, parts, max_parts, max_results,
                       half, pricingVars, clientVars>>

ClearExpired ==
    /\ parts' = clear_expired(parts, vehicle_results).parts
    /\ vehicle_results' = clear_expired(parts, vehicle_results).results
    /\ ret' = [op |-> "clear_expired", key |-> None,
               value |-> clear_expired(parts, vehicle_results).counts]
    /\ UNCHANGED <<pureVars, infoVars, now, max_parts, max_results, half, pricingVars,
                 clientVars>>

\* PartCache.clear_all
ClearAll ==
    /\ parts' = <<>> /\ vehicle_results' = <<>>
    /\ ret' = [op |-> "clear_all", key |-> None, value |-> None]
    /\ UNCHANGED <<pureVars, infoVars, now, max_parts, max_results, half, pricingVars,
                 clientVars>>

PartCacheNext ==
    \/ GetPart \/ CachePart \/ GetVehicleResult \/ CacheVehicleResult
    \/ ClearExpired \/ ClearAll \/ TickMinute \/ TickLong

SpecPartCache == PartCacheInit /\ [][PartCacheNext]_vars

(***************************************************************************)
(* Specification SpecPricing: the PricingCache operations                  *)
(***************************************************************************)
MaxPricingCap == 2

MaxTtl == 1

MaxHistLen == 2

PricedParts == {"P1", "P2", "P3"}

Price1 == <<"$","1">>

\* what a caller passes to cache_pricing: a PriceInfo without a snapshot, or
\* one that has just been given its first snapshot
FreshPriceInfos ==
    {NewPriceInfo(DefaultMaxHistory),
     add_snapshot(NewPriceInfo(DefaultMaxHistory), Snapshot(Price1))}

PricingInit ==
    /\ pricing_data = <<>>
    /\ max_entries \in 1..MaxPricingCap
    /\ ttl_minutes \in 1..MaxTtl
    /\ now = 0 /\ ret = NoRet
    /\ PureIdle /\ InfoIdle /\ PartIdle /\ ClientIdle

CachePricing ==
    \E pn \in PricedParts, pi \in FreshPriceInfos :
        /\ pricing_data' = cache_pricing(pricing_data, max_entries, pn, pi)
        /\ ret' = [op |-> "cache_pricing", key |-> pn, value |-> pi]
        /\ UNCHANGED <<pureVars, infoVars, now, partVars, max_entries, ttl_minutes, clientVars>>

GetPricing ==
    \E pn \in PricedParts :
        /\ pricing_data' = get_pricing(pricing_data, pn, ttl_minutes).dict
        /\ ret' = [op |-> "get_pricing", key |-> pn,
                   value |-> get_pricing(pricing_data, pn, ttl_minutes).value]
        /\ UNCHANGED <<pureVars, infoVars, now, partVars, max_entries, ttl_minutes, clientVars>>

UpdatePricing ==
    \E pn \in PricedParts :
        /\ pn \in DictKeys(pricing_data)
              => Len(DictGet(pricing_data, pn).price_history) < MaxHistLen
        /\ pricing_data' = update_pricing(pricing_data, pn, Snapshot(Price1))
        /\ ret' = [op |-> "update_pricing", key |-> pn, value |-> None]
        /\ UNCHANGED <<pureVars, infoVars, now, partVars, max_entries, ttl_minutes, clientVars>>

CleanupExpired ==
    /\ pricing_data' = cleanup_expired(pricing_data, ttl_minutes).dict
    /\ ret' = [op |-> "cleanup_expired", key |-> None,
               value |-> cleanup_expired(pricing_data, ttl_minutes).count]
    /\ UNCHANGED <<pureVars, infoVars, now, partVars, max_entries, ttl_minutes, clientVars>>

PricingNext ==
    \/ CachePricing \/ GetPricing \/ UpdatePricing \/ CleanupExpired \/ TickMinute

SpecPricing == PricingInit /\ [][PricingNext]_vars

\* this step is a call of op (the clock steps leave ret alone and move now)
IsCall(op) == ret'.op = op /\ now' = now

\* the TTL of part and result entries, in minutes
C7_PartTtl == 12 * 60

\* C7 for PartCache.get_part
C7_GetPart ==
    \A pn \in PartNumbers :
        (IsCall("get_part") /\ ret'.key = pn) =>
            IF pn \notin DictKeys(parts)
            THEN ret'.value = Absent /\ parts' = parts
            ELSE IF now - DictGet(parts, pn).cached_at > C7_PartTtl
            THEN /\ ret'.value = Absent
                 /\ pn \notin DictKeys(parts')
                 /\ Len(parts') = Len(parts) - 1
            ELSE /\ ret'.value = DictGet(parts, pn).part_info
                 /\ DictKeys(parts') = DictKeys(parts)

\* C7 for PartCache.get_vehicle_result
C7_GetVehicleResult ==
    \A k \in ResultKeys :
        (IsCall("get_vehicle_result") /\ ret'.key = k) =>
            IF k \notin DictKeys(vehicle_results)
            THEN ret'.value = Absent /\ vehicle_results' = vehicle_results
            ELSE IF now - DictGet(vehicle_results, k).cached_at > C7_PartTtl
            THEN /\ ret'.value = Absent
                 /\ k \notin DictKeys(vehicle_results')
                 /\ Len(vehicle_results') = Len(vehicle_results) - 1
            ELSE /\ ret'.value = DictGet(vehicle_results, k).result
                 /\ DictKeys(vehicle_results') = DictKeys(vehicle_results)

\* C7 for PricingCache.get_pricing; an entry's cached_at is the time its
\* current snapshot was collected (an entry without a snapshot has none, and
\* the claim is not read as speaking of it)
C7_GetPricing ==
    \A pn \in PricedParts :
        (IsCall("get_pricing") /\ ret'.key = pn) =>
            IF pn \notin DictKeys(pricing_data)
            THEN ret'.value = Absent /\ pricing_data' = pricing_data
            ELSE IF DictGet(pricing_data, pn).current_snapshot = Absent
            THEN TRUE
            ELSE IF now - DictGet(pricing_data, pn).current_snapshot.time_collected
                        > ttl_minutes
            THEN /\ ret'.value = Absent
                 /\ pn \notin DictKeys(pricing_data')
                 /\ Len(pricing_data') = Len(pricing_data) - 1
            ELSE /\ ret'.value = DictGet(pricing_data, pn)
                 /\ DictKeys(pricing_data') = DictKeys(pricing_data)

\* C7: for get_part, get_vehicle_result and get_pricing, a get on an entry
\* with now - cached_at > ttl removes it, returns absent and shrinks the cache
\* by exactly one; a get of an absent key returns absent and changes nothing;
\* a get on an entry that is not expired returns its value and removes nothing.
C7_ExpiredGetRemoves == [][C7_GetPart /\ C7_GetVehicleResult /\ C7_GetPricing]_vars

\* C7, the part that holds: the two PartCache gets behave as claimed.
C7_PartCacheGets == [][C7_GetPart /\ C7_GetVehicleResult]_vars

\* C11 for PartCache.cache_part
C11_CachePart ==
    \A pn \in PartNumbers :
        (IsCall("cache_part") /\ ret'.key = pn) =>
            /\ pn \in DictKeys(parts')
            /\ DictGet(parts', pn).part_info = PartInfoOf(pn)

\* C11 for PartCache.cache_vehicle_result
C11_CacheVehicleResult ==
    \A k \in ResultKeys :
        (IsCall("cache_vehicle_result") /\ ret'.key = k) =>
            /\ k \in DictKeys(vehicle_results')
            /\ DictGet(vehicle_results', k).result = ResultOf(k)

\* C11 for PricingCache.cache_pricing
C11_CachePricing ==
    \A pn \in PricedParts :
        (IsCall("cache_pricing") /\ ret'.key = pn) =>
            /\ pn \in DictKeys(pricing_data')
            /\ DictGet(pricing_data', pn) = ret'.value

\* C11: right after cache_part, cache_vehicle_result or cache_pricing returns,
\* the key that was inserted is in the cache with the inserted value, whatever
\* the cache held before and whatever is inserted.
C11_InsertedIsPresent ==
    [][C11_CachePart /\ C11_CacheVehicleResult /\ C11_CachePricing]_vars

\* C11, the part that holds: the two PartCache inserts evict before they
\* store, so what they insert is there afterwards.
C11_PartCacheInserts == [][C11_CachePart /\ C11_CacheVehicleResult]_vars

\* C12: the part cache holds at most max_parts parts and the result cache at
\* most max_results results, in every state the cache operations and
\* configure_cache(max_cached_parts / max_cached_searches) lead to.
C12_CapacityBounded ==
    has_cache => /\ Len(parts) <= max_parts
                 /\ Len(vehicle_results) <= max_results

\* C12, the part that holds: an insert into a cache that is within its
\* capacity leaves it within its capacity.
C12_InsertKeepsBound ==
    [][ /\ (IsCall("cache_part") /\ Len(parts) <= max_parts)
            => Len(parts') <= max_parts
        /\ (IsCall("cache_vehicle_result") /\ Len(vehicle_results) <= max_results)
            => Len(vehicle_results') <= max_results ]_vars

\* C13: pricing_data holds at most max_entries part numbers after any
\* sequence of cache_pricing and update_pricing inserts.
C13_PricingBounded == Len(pricing_data) <= max_entries

\* C13, the part that holds: cache_pricing on a cache within its capacity
\* leaves it within its capacity.
C13_CachePricingKeepsBound ==
    [][ (IsCall("cache_pricing") /\ Len(pricing_data) <= max_entries)
            => Len(pricing_data') <= max_entries ]_vars

(***************************************************************************)
(* Session cookies (BaseClient.session.cookies, an httpx.Cookies jar).     *)
(* A cookie is <<name, domain>>; its value plays no part in the code.      *)
(***************************************************************************)
SiteDomain == "www.rockauto.com"

ParentDomain == ".rockauto.com"

\* the cookies BaseClient.__init__ sets
InitialCookies ==
    { <<n, SiteDomain>> : n \in { <<"i","d","l","i","s","t">>, <<"m","k","t","_","C","A">>, <<"m","k","t","_","M","X">>,
                                  <<"y","e","a","r","_","2","0","0","5">>, <<"c","k">>, <<"m","k","t","_","U","S">> } }

\* cookies a response of the site may set (Set-Cookie)
ServerCookies ==
    { <<<<"S","e","s","s","i","o","n","I","D">>, SiteDomain>>, <<<<"P","H","P","S","E","S","S","I","D">>, SiteDomain>>,
      <<<<"A","u","t","h","T","o","k","e","n">>, ParentDomain>>, <<<<"c","k">>, ParentDomain>> }

auth_cookies_to_clear == { <<"s","e","s","s","i","o","n">>, <<"l","o","g","i","n">>, <<"a","u","t","h">>, <<"u","s","e","r">> }

\* any(auth_key in cookie_name.lower() for auth_key in auth_cookies_to_clear)
IsAuthCookieName(cookie_name) ==
    \E auth_key \in auth_cookies_to_clear : Contains(auth_key, Lower(cookie_name))

\* dict(self.session.cookies) raises CookieConflict when one name is held
\* for two domains
CookieConflict(jar) == \E c \in jar, d \in jar : c[1] = d[1] /\ c[2] # d[2]

(***************************************************************************)
(* HTTP responses.  status "network_error" stands for a request that got   *)
(* no response, "http_error" for one raise_for_status() rejects.           *)
(***************************************************************************)
Statuses == {"ok", "http_error", "network_error"}

\* the jar after the response's Set-Cookie headers are stored
Received(jar, response) ==
    IF response.status = "network_error" THEN jar ELSE jar \cup response.set_cookies

Emails == { <<"a","@","x">>, <<"b","@","x">> }

LogInSuccessful == "Log In Successful"

\* bodies of the login endpoint: a JSON object, other JSON, or plain text
JsonBodies ==
    [ kind : {"json"}, accountcaptchaerror : {0, 1}, error : {None, <<"b","a","d">>},
      message : {LogInSuccessful, "Try again"}, email : Emails \cup {None},
      act : {"login", "other"} ]

TextBodies ==
    [ kind : {"text"},
      text : { <<"L","O","G"," ","I","N"," ","S","U","C","C","E","S","S","F","U","L">>, <<"x"," ","l","o","g"," ","i","n"," ","s","u","c","c","e","s","s","f","u","l","!">>, <<"d","e","n","i","e","d">> } ]

Bodies == JsonBodies \cup TextBodies \cup { [kind |-> "json_list"] }


\* a response sets at most one cookie here; a response that is not 2xx has
\* a body the code never reads
SetCookies == { {} } \cup { {c} : c \in ServerCookies }

NoBody == [kind |-> "json_list"]

\* every body without a cookie, and every cookie with a body that says yes
\* and one that says no
CookieBodies == [ kind : {"text"}, text : { <<"L","O","G"," ","I","N"," ","S","U","C","C","E","S","S","F","U","L">>, <<"d","e","n","i","e","d">> } ]

LoginResponses ==
    [ status : {"ok"}, set_cookies : { {} }, body : Bodies ]
    \cup [ status : {"ok"}, set_cookies : SetCookies, body : CookieBodies ]
    \cup [ status : {"http_error"}, set_cookies : SetCookies, body : {NoBody} ]
    \cup [ status : {"network_error"}, set_cookies : { {} }, body : {NoBody} ]

(***************************************************************************)
(* BaseClient.login and BaseClient.logout                                  *)
(***************************************************************************)
\* the mutant leaves the authentication state alone when the server says no
login_KeepStateOnRefusal(auth, email, response, jar) ==
    LET jar1 == Received(jar, response)
        cleared(outcome) == [ is_authenticated |-> FALSE, user_email |-> None,
                              cookies |-> jar1, outcome |-> outcome ]
        refused == [ is_authenticated |-> auth.is_authenticated,
                     user_email |-> auth.user_email,
                     cookies |-> jar1, outcome |-> "False" ]
        granted == [ is_authenticated |-> TRUE, user_email |-> email,
                     cookies |-> jar1, outcome |-> "True" ]
        body == response.body
    IN  IF response.status # "ok" THEN cleared("raise")
        ELSE IF CookieConflict(jar1) THEN cleared("raise")
        ELSE IF body.kind = "json" THEN
            IF body.accountcaptchaerror = 1 THEN cleared("raise")
            ELSE IF Truthy(body.error) THEN cleared("raise")
            ELSE IF body.message = LogInSuccessful /\ body.email = email
                    /\ body.act = "login"
                 THEN granted ELSE refused
        ELSE IF body.kind = "json_list" THEN cleared("raise")
        ELSE IF Contains(<<"l","o","g"," ","i","n"," ","s","u","c","c","e","s","s","f","u","l">>, Lower(body.text))
             THEN granted ELSE refused

\* auth is the state before the call: every path overwrites both fields
login(auth, email, response, jar) ==
    LET jar1 == Received(jar, response)
        cleared(outcome) == [ is_authenticated |-> FALSE, user_email |-> None,
                              cookies |-> jar1, outcome |-> outcome ]
        granted == [ is_authenticated |-> TRUE, user_email |-> email,
                     cookies |-> jar1, outcome |-> "True" ]
        body == response.body
    IN  IF response.status # "ok" THEN cleared("raise")
        ELSE IF CookieConflict(jar1) THEN cleared("raise")
        ELSE IF body.kind = "json" THEN
            IF body.accountcaptchaerror = 1 THEN cleared("raise")
            ELSE IF Truthy(body.error) THEN cleared("raise")
            ELSE IF body.message = LogInSuccessful /\ body.email = email
                    /\ body.act = "login"
                 THEN granted ELSE cleared("False")
        ELSE IF body.kind = "json_list" THEN cleared("raise")
        ELSE IF Contains(<<"l","o","g"," ","i","n"," ","s","u","c","c","e","s","s","f","u","l">>, Lower(body.text))
             THEN granted ELSE cleared("False")

\* cookies.delete(cookie_name, domain="www.rockauto.com") for every name
\* with a keyword: only the cookie of that very domain goes
ClearAuthCookies(jar) ==
    { c \in jar : ~(IsAuthCookieName(c[1]) /\ c[2] = SiteDomain) }

\* logout: raise_for_status() comes before the reset, the reset before the
\* cookie loop, and dict(session.cookies) after it
logout(auth, response, jar) ==
    LET jar1 == Received(jar, response)
        jar2 == ClearAuthCookies(jar1)
    IN  IF response.status # "ok"
        THEN [ is_authenticated |-> auth.is_authenticated,
               user_email |-> auth.user_email, cookies |-> jar1, outcome |-> "raise" ]
        ELSE [ is_authenticated |-> FALSE, user_email |-> None,
               cookies |-> jar2,
               outcome |-> IF CookieConflict(jar2) THEN "raise" ELSE "True" ]

(***************************************************************************)
(* Operations that need a logged-in session (RockAutoClient).  Each        *)
(* returns what the call did: outcome "return" or "raise", the error       *)
(* raised, the number of requests sent, and the value returned.            *)
(***************************************************************************)
Whitespace == {" ", "\t", "\n"}

\* len(v.strip()) == 0
IsBlank(v) == \A i \in 1..Len(v) : v[i] \in Whitespace

\* the longest email or phone accepted
MaxContactLen == 50

\* validate_email_or_phone of OrderLookupRequest and ExternalOrderRequest
validate_email_or_phone(v) ==
    IF Len(v) = 0 \/ IsBlank(v) THEN "ValueError"
    ELSE IF Len(v) > MaxContactLen THEN "ValueError"
    ELSE "ok"

Raised(error, sent) ==
    [ value |-> Absent, error |-> error, outcome |-> "raise", sent |-> sent ]

Returned(value, sent) ==
    [ value |-> value, error |-> "none", outcome |-> "return", sent |-> sent ]

\* `any(indicator in response_text for indicator in indicators)`
AnyIn(indicators, response_text) ==
    \E indicator \in indicators : Contains(indicator, response_text)

success_indicators == { <<"a","d","d","e","d">>, <<"s","u","c","c","e","s","s">>, <<"o","r","d","e","r"," ","a","d","d","e","d">> }

failure_indicators == { <<"e","r","r","o","r">>, <<"f","a","i","l","e","d">>, <<"n","o","t"," ","f","o","u","n","d">>, <<"i","n","v","a","l","i","d">> }

add_external_order(auth, email_or_phone, order_number, page, add_response) ==
    IF ~auth THEN Raised("AuthenticationRequired", 0)
    ELSE IF ExternalOrderRequest_validate(order_number) # "ok"
            \/ validate_email_or_phone(email_or_phone) # "ok"
         THEN Raised("Failed", 0)
    ELSE IF page.status # "ok" THEN Raised("Failed", 1)
    ELSE IF add_response.status # "ok" THEN Raised("Failed", 2)
    ELSE LET response_text == Lower(add_response.text)
         IN  Returned([ added |-> AnyIn(success_indicators, response_text)
                                  /\ ~AnyIn(failure_indicators, response_text) ], 2)

get_saved_addresses(auth, page) ==
    IF ~auth THEN Raised("AuthenticationRequired", 0)
    ELSE IF page.status # "ok" THEN Raised("Failed", 1)
    ELSE Returned([ count |-> page.found ], 1)

get_saved_vehicles(auth, page) ==
    IF ~auth THEN Raised("AuthenticationRequired", 0)
    ELSE IF page.status # "ok" THEN Raised("Failed", 1)
    ELSE Returned([ count |-> page.found ], 1)

\* the two lists are fetched first, then the account activity page
get_account_activity(auth, profile1, profile2, page) ==
    IF ~auth THEN Raised("AuthenticationRequired", 0)
    ELSE LET saved_addresses == get_saved_addresses(auth, profile1)
             saved_vehicles == get_saved_vehicles(auth, profile2)
         IN  IF saved_addresses.outcome = "raise" THEN Raised("Failed", 1)
             ELSE IF saved_vehicles.outcome = "raise" THEN Raised("Failed", 2)
             ELSE IF page.status # "ok" THEN Raised("Failed", 3)
             ELSE Returned([ saved_addresses |-> saved_addresses.value.count,
                             saved_vehicles |-> saved_vehicles.value.count ], 3)

\* the mutant fetches the page before it looks at is_authenticated
get_order_history_FetchFirst(auth, page) ==
    IF page.status # "ok" THEN Raised("Failed", 1)
    ELSE IF ~auth THEN Raised("AuthenticationRequired", 1)
    ELSE Returned([ count |-> page.found ], 1)

get_order_history(auth, page) ==
    IF ~auth THEN Raised("AuthenticationRequired", 0)
    ELSE IF page.status # "ok" THEN Raised("Failed", 1)
    ELSE Returned([ count |-> page.found ], 1)

(***************************************************************************)
(* Order status lookup (RockAutoClient.lookup_order_status)                *)
(***************************************************************************)
system_error == [ order_number |-> None, error_type |-> "SYSTEM_ERROR" ]

order_not_found(order_number) ==
    [ order_number |-> order_number, error_type |-> "ORDER_NOT_FOUND" ]

invalid_credentials(order_number) ==
    [ order_number |-> order_number, error_type |-> "INVALID_CREDENTIALS" ]

success_result(order_status) ==
    [ error |-> Absent, success |-> TRUE, order |-> order_status ]

error_result(error) == [ error |-> error, success |-> FALSE, order |-> Absent ]

\* the mutant builds the request before the try block, so a rejected
\* order number or contact escapes as an exception
lookup_order_status_ValidateFirst(email_or_phone, order_number, page, lookup_response) ==
    IF OrderLookupRequest_validate(order_number) # "ok"
       \/ validate_email_or_phone(email_or_phone) # "ok"
    THEN Raised("ValidationError", 0)
    ELSE IF page.status # "ok" THEN Returned(error_result(system_error), 1)
    ELSE IF ~page.has_nck THEN Returned(error_result(system_error), 1)
    ELSE IF lookup_response.status # "ok" THEN Returned(error_result(system_error), 2)
    ELSE IF lookup_response.order_found
    THEN Returned(success_result([ order_number |-> order_number ]), 2)
    ELSE LET error_message == Lower(lookup_response.message)
         IN  IF Contains(<<"n","o","t"," ","f","o","u","n","d">>, error_message)
             THEN Returned(error_result(order_not_found(order_number)), 2)
             ELSE IF Contains(<<"e","m","a","i","l">>, error_message) \/ Contains(<<"p","h","o","n","e">>, error_message)
             THEN Returned(error_result(invalid_credentials(order_number)), 2)
             ELSE Returned(error_result(system_error), 2)

\* page is the order status page, lookup_response the answer to the form;
\* lookup_response.order_found says whether _parse_order_status_response
\* found an order, lookup_response.message is the extracted error message
lookup_order_status(email_or_phone, order_number, page, lookup_response) ==
    IF OrderLookupRequest_validate(order_number) # "ok"
       \/ validate_email_or_phone(email_or_phone) # "ok"
    THEN Returned(error_result(system_error), 0)
    ELSE IF page.status # "ok" THEN Returned(error_result(system_error), 1)
    ELSE IF ~page.has_nck THEN Returned(error_result(system_error), 1)
    ELSE IF lookup_response.status # "ok" THEN Returned(error_result(system_error), 2)
    ELSE IF lookup_response.order_found
    THEN Returned(success_result([ order_number |-> order_number ]), 2)
    ELSE LET error_message == Lower(lookup_response.message)
         IN  IF Contains(<<"n","o","t"," ","f","o","u","n","d">>, error_message)
             THEN Returned(error_result(order_not_found(order_number)), 2)
             ELSE IF Contains(<<"e","m","a","i","l">>, error_message) \/ Contains(<<"p","h","o","n","e">>, error_message)
             THEN Returned(error_result(invalid_credentials(order_number)), 2)
             ELSE Returned(error_result(system_error), 2)

(***************************************************************************)
(* Specification SpecAuth: one client, its session and the calls made on   *)
(* it, each with every answer the site can give.                           *)
(***************************************************************************)
\* requests are counted up to this many
MaxRequests == 3

\* a page the client fetches: found is what the parser makes of it,
\* has_nck whether it holds the _nck form token
Pages ==
    [ status : {"ok"}, found : 0..1, has_nck : {TRUE} ]
    \cup [ status : {"ok"}, found : {0}, has_nck : {FALSE} ]
    \cup [ status : {"http_error", "network_error"}, found : {0}, has_nck : {FALSE} ]

AddResponses ==
    [ status : {"ok"}, text : { <<"O","r","d","e","r"," ","A","d","d","e","d">>, <<"E","r","r","o","r",":"," ","o","r","d","e","r"," ","n","o","t"," ","a","d","d","e","d">>, <<"o","k">> } ]
    \cup [ status : {"http_error", "network_error"}, text : { <<>> } ]

LookupResponses ==
    [ status : {"ok"}, message : { <<>> }, order_found : {TRUE} ]
    \cup [ status : {"ok"}, message : { <<"O","r","d","e","r"," ","N","O","T"," ","F","O","U","N","D">>, <<"E","m","a","i","l"," ","m","i","s","m","a","t","c","h">>, <<"W","r","o","n","g"," ","p","h","o","n","e">>,
                        <<"O","r","d","e","r"," ","l","o","o","k","u","p"," ","f","a","i","l","e","d">> },
            order_found : {FALSE} ]
    \cup [ status : {"http_error", "network_error"}, message : { <<>> },
            order_found : {FALSE} ]

LogoutResponses ==
    [ status : {"ok"}, set_cookies : { {} }, body : TextBodies \cup {NoBody} ]
    \cup [ status : {"ok"}, set_cookies : SetCookies, body : CookieBodies ]
    \cup [ status : {"http_error"}, set_cookies : SetCookies, body : {NoBody} ]
    \cup [ status : {"network_error"}, set_cookies : { {} }, body : {NoBody} ]

Contacts == { <<>>, <<" ">>, <<"a","@","x">>, Repeat("5", MaxContactLen + 1) }

OrderNumbers ==
    { <<>>, <<"1","2">>, <<"1","a">>, Repeat("3", MaxOrderDigits), Repeat("3", MaxOrderDigits + 1) }

authUnchanged ==
    UNCHANGED <<pureVars, infoVars, partVars, pricingVars, now, cache_enabled,
                has_cache, configVars, dropdownVars>>

AuthInit ==
    /\ PureIdle /\ InfoIdle /\ PartIdle /\ PricingIdle
    /\ now = 0
    /\ cache_enabled = TRUE /\ has_cache = TRUE
    /\ ConfigIdle /\ DropdownIdle
    /\ is_authenticated = FALSE
    /\ user_email = None
    /\ cookies = InitialCookies
    /\ requests = 0
    /\ ret = NoRet

AuthState == [ is_authenticated |-> is_authenticated, user_email |-> user_email ]

Login ==
    \E email \in Emails, response \in LoginResponses :
        \E r \in { login(AuthState, email, response, cookies) } :
            /\ requests < MaxRequests
            /\ is_authenticated' = r.is_authenticated
            /\ user_email' = r.user_email
            /\ cookies' = r.cookies
            /\ requests' = requests + 1
            /\ ret' = [ op |-> "login", status |-> response.status, email |-> email,
                        outcome |-> r.outcome, was |-> is_authenticated ]
            /\ authUnchanged

Logout ==
    \E response \in LogoutResponses :
        \E r \in { logout(AuthState, response, cookies) } :
            /\ requests < MaxRequests
            /\ is_authenticated' = r.is_authenticated
            /\ user_email' = r.user_email
            /\ cookies' = r.cookies
            /\ requests' = requests + 1
            /\ ret' = [ op |-> "logout", status |-> response.status,
                        outcome |-> r.outcome, was |-> is_authenticated,
                        deleted |-> Received(cookies, response) \ r.cookies ]
            /\ authUnchanged

\* a call that changes nothing but the request count
Called(op, r) ==
    /\ requests + r.sent <= MaxRequests
    /\ requests' = requests + r.sent
    /\ ret' = [ op |-> op, value |-> r.value, error |-> r.error,
                outcome |-> r.outcome, sent |-> r.sent ]
    /\ UNCHANGED <<is_authenticated, user_email, cookies>>
    /\ authUnchanged

\* a request the validators reject is answered before any page is fetched
Rejected(email_or_phone, order_number) ==
    \/ OrderLookupRequest_validate(order_number) # "ok"
    \/ validate_email_or_phone(email_or_phone) # "ok"

NoPage == [ status |-> "network_error", found |-> 0, has_nck |-> FALSE ]

AddExternalOrder ==
    \E email_or_phone \in Contacts, order_number \in OrderNumbers :
    \E page \in IF Rejected(email_or_phone, order_number) THEN {NoPage} ELSE Pages,
       add_response \in IF Rejected(email_or_phone, order_number)
                        THEN { [status |-> "network_error", text |-> <<>>] }
                        ELSE AddResponses :
        \E r \in { add_external_order(is_authenticated, email_or_phone, order_number,
                                  page, add_response) } :
            Called("add_external_order", r)

GetSavedAddresses ==
    \E page \in Pages :
        \E r \in { get_saved_addresses(is_authenticated, page) } :
            Called("get_saved_addresses", r)

GetSavedVehicles ==
    \E page \in Pages :
        \E r \in { get_saved_vehicles(is_authenticated, page) } :
            Called("get_saved_vehicles", r)

GetAccountActivity ==
    \E profile1 \in Pages, profile2 \in Pages, page \in Pages :
        \E r \in { get_account_activity(is_authenticated, profile1, profile2, page) } :
            Called("get_account_activity", r)

GetOrderHistory ==
    \E page \in Pages :
        \E r \in { get_order_history(is_authenticated, page) } :
            Called("get_order_history", r)

LookupOrderStatus ==
    \E email_or_phone \in Contacts, order_number \in OrderNumbers :
    \E page \in IF Rejected(email_or_phone, order_number) THEN {NoPage} ELSE Pages,
       lookup_response \in IF Rejected(email_or_phone, order_number)
                           THEN { [status |-> "network_error", message |-> <<>>,
                                   order_found |-> FALSE] }
                           ELSE LookupResponses :
        \E r \in { lookup_order_status(email_or_phone, order_number, page, lookup_response) } :
            Called("lookup_order_status", r)

AuthNext ==
    \/ Login
    \/ Logout
    \/ AddExternalOrder
    \/ GetSavedAddresses
    \/ GetSavedVehicles
    \/ GetAccountActivity
    \/ GetOrderHistory
    \/ LookupOrderStatus

SpecAuth == AuthInit /\ [][AuthNext]_vars

AuthOnlyOps == { "add_external_order", "get_saved_addresses", "get_saved_vehicles",
                 "get_account_activity", "get_order_history" }

\* C2: each of the five operations that need a login, called while
\* is_authenticated is false, raises the authentication-required error and
\* sends no request (the request count is the same after the call).
C2_AuthRequiredNoRequest ==
    [][ (~is_authenticated /\ ret'.op \in AuthOnlyOps)
        => /\ ret'.outcome = "raise"
           /\ ret'.error = "AuthenticationRequired"
           /\ ret'.sent = 0
           /\ requests' = requests ]_vars

C2_Witness ==
    /\ ~is_authenticated
    /\ requests > 0
    /\ ret.op = "get_order_history"
    /\ ret.error = "AuthenticationRequired"

\* C3: after a login call, is_authenticated is true and user_email is the
\* email given exactly when the call returned True; after a call that
\* returned False or raised, is_authenticated is false and user_email is
\* None, whatever they were before.  In every state user_email is set if
\* and only if is_authenticated is true.
C3_LoginAuthState ==
    /\ (user_email # None) <=> is_authenticated
    /\ ret.op = "login" =>
        /\ (ret.outcome = "True") <=> is_authenticated
        /\ ret.outcome = "True" => user_email = ret.email
        /\ ret.outcome \in {"False", "raise"} => user_email = None

C3_Witness ==
    /\ ret.op = "login"
    /\ ret.outcome = "False"
    /\ ret.was
    /\ ~is_authenticated

LogoutStep == ret'.op = "logout" /\ requests' = requests + 1

\* every cookie without a keyword in its name (case ignored) is still held
CookiesKept == \A c \in cookies : ~IsAuthCookieName(c[1]) => c \in cookies'

\* C4 as claimed: whatever the server answers to the logout request, after
\* logout is_authenticated is false, user_email is None, no cookie is left
\* whose name contains session, login, auth or user, and the other cookies
\* are kept.
C4_LogoutAlwaysClears ==
    [][ LogoutStep
        => /\ ~is_authenticated'
           /\ user_email' = None
           /\ \A c \in cookies' : ~IsAuthCookieName(c[1])
           /\ CookiesKept ]_vars

\* What logout does guarantee: when the logout request is answered with a
\* 2xx status, whatever the content, is_authenticated is false and user_email
\* is None afterwards and no cookie of domain www.rockauto.com is left whose
\* lower-cased name contains session, login, auth or user; when the request
\* fails (no response or a non-2xx status) logout raises and leaves
\* is_authenticated and user_email as they were.  In both cases the cookies
\* without a keyword in their name are kept.
C4_LogoutClearsOn2xx ==
    [][ LogoutStep
        => /\ ret'.status = "ok" =>
                /\ ~is_authenticated'
                /\ user_email' = None
                /\ \A c \in cookies' : c[2] = SiteDomain => ~IsAuthCookieName(c[1])
           /\ ret'.status # "ok" =>
                /\ ret'.outcome = "raise"
                /\ UNCHANGED <<is_authenticated, user_email>>
           /\ CookiesKept ]_vars

\* a logged-in client logs out and the server answers 2xx
C4_LoggedOut ==
    /\ ret.op = "logout"
    /\ ret.status = "ok"
    /\ ret.was
    /\ ~is_authenticated
    /\ ret.deleted # {}

OrderErrorTypes == { "ORDER_NOT_FOUND", "INVALID_CREDENTIALS", "SYSTEM_ERROR" }

\* C5: lookup_order_status never raises: for every contact, order number
\* (valid or not) and every answer of the site it returns a result that is
\* either a success with an order and no error, or a failure with no order
\* and an error of type ORDER_NOT_FOUND, INVALID_CREDENTIALS or SYSTEM_ERROR.
C5_LookupNeverRaises ==
    ret.op = "lookup_order_status" =>
        /\ ret.outcome = "return"
        /\ \/ /\ ret.value.success
              /\ ret.value.order # Absent
              /\ ret.value.error = Absent
           \/ /\ ~ret.value.success
              /\ ret.value.order = Absent
              /\ ret.value.error # Absent
              /\ ret.value.error.error_type \in OrderErrorTypes

\* an order number that is not numeric was given: a failure result, no request
C5_Witness ==
    /\ ret.op = "lookup_order_status"
    /\ ret.outcome = "return"
    /\ ret.sent = 0
    /\ ~ret.value.success
    /\ ret.value.error.error_type = "SYSTEM_ERROR"

(***************************************************************************)
(* RockAutoClient.get_parts_by_category and configure_cache                *)
(***************************************************************************)
DigitChars == <<"0","1","2","3","4","5","6","7","8","9">>

\* str(year) of a non-negative int
RECURSIVE Str(_)
Str(n) ==
    IF n < 10 THEN <<DigitChars[n + 1]>>
    ELSE Str(n \div 10) \o <<DigitChars[(n % 10) + 1]>>

\* str.upper() on one character
UpperOf == [ c \in { LowerAlpha[i] : i \in 1..Len(LowerAlpha) } |->
                UpperAlpha[CHOOSE i \in 1..Len(LowerAlpha) : LowerAlpha[i] = c] ]

UpperChar(c) == IF c \in DOMAIN UpperOf THEN UpperOf[c] ELSE c

\* str.upper()
Upper(s) == [i \in 1..Len(s) |-> UpperChar(s[i])]

\* str.replace("+", " ")
ReplacePlus(s) == [i \in 1..Len(s) |-> IF s[i] = "+" THEN " " ELSE s[i]]

\* cache_part for each part found, in the order found
RECURSIVE CacheParts(_, _, _)
CacheParts(d, maxp, found) ==
    IF Len(found) = 0 THEN d
    ELSE CacheParts(cache_part(d, maxp, Head(found)), maxp, Tail(found))

\* VehiclePartsResult(...) as get_parts_by_category builds it
VehiclePartsResult(make, year, model, carcode, category_group_name, found) ==
    [ parts |-> found, make |-> Upper(make), model |-> Upper(model),
      year |-> year, category |-> ReplacePlus(category_group_name),
      count |-> Len(found), carcode |-> carcode ]

\* the fallback loop: the links that yield a part whose name is not yet in
\* the list, in document order
RECURSIVE FallbackParts(_, _)
FallbackParts(links, acc) ==
    IF Len(links) = 0 THEN acc
    ELSE LET part_info == Head(links)
             fresh == /\ part_info # Absent
                      /\ \A i \in 1..Len(acc) : acc[i].name # part_info.name
         IN  FallbackParts(Tail(links), IF fresh THEN Append(acc, part_info) ELSE acc)

\* the two parsing loops of get_parts_by_category.  An element stands for
\* what PartExtractor.extract_from_element makes of it: a PartInfo, or Absent
\* for None.  items are the div/tr/a elements whose class matches
\* part|product|item, links the a[href] elements, both in document order.
PartsFound(items, links) ==
    LET structured == SelectSeq(items, LAMBDA part_info : part_info # Absent)
    IN  IF Len(structured) > 0 THEN structured ELSE FallbackParts(links, <<>>)

\* the mutant stores the result only when parts were found
get_parts_by_category_StoreIfParts(cache, make, year, model, carcode, category_group_name, response) ==
    LET caching == cache.has_cache /\ cache.enabled
        cache_key == generate_vehicle_cache_key(make, model, Str(year), carcode,
                                                category_group_name)
        looked == IF caching THEN get_vehicle_result(cache.vehicle_results, cache_key)
                  ELSE [dict |-> cache.vehicle_results, value |-> Absent]
        found == IF response.payload = "sections"
                 THEN PartsFound(response.items, response.links) ELSE <<>>
        result == VehiclePartsResult(make, year, model, carcode,
                                     category_group_name, found)
    IN  IF looked.value # Absent
        THEN [ parts |-> cache.parts, vehicle_results |-> looked.dict, value |-> looked.value,
               error |-> None, outcome |-> "return",
               sent |-> 0, posts |-> <<>> ]
        ELSE IF response.status # "ok" \/ response.payload = "not_json"
        THEN [ parts |-> cache.parts, vehicle_results |-> looked.dict, value |-> Absent,
               error |-> "Exception", outcome |-> "raise",
               sent |-> 1, posts |-> <<"groupname">> ]
        ELSE [ parts |-> IF caching
                         THEN CacheParts(cache.parts, cache.max_parts, found)
                         ELSE cache.parts, vehicle_results |->
                   IF caching /\ Len(found) > 0
                   THEN cache_vehicle_result(looked.dict, cache.max_results,
                                             result, cache_key)
                   ELSE looked.dict, value |-> result,
               error |-> None, outcome |-> "return",
               sent |-> 1,
               posts |-> <<"groupname">> ]

\* the mutant stores the empty result of a failed fetch under the call's key
get_parts_by_category_CacheFailure(cache, make, year, model, carcode, category_group_name, response) ==
    LET caching == cache.has_cache /\ cache.enabled
        cache_key == generate_vehicle_cache_key(make, model, Str(year), carcode,
                                                category_group_name)
        looked == IF caching THEN get_vehicle_result(cache.vehicle_results, cache_key)
                  ELSE [dict |-> cache.vehicle_results, value |-> Absent]
        found == IF response.payload = "sections"
                 THEN PartsFound(response.items, response.links) ELSE <<>>
        result == VehiclePartsResult(make, year, model, carcode,
                                     category_group_name, found)
    IN  IF looked.value # Absent
        THEN [ parts |-> cache.parts, vehicle_results |-> looked.dict, value |-> looked.value,
               error |-> None, outcome |-> "return",
               sent |-> 0, posts |-> <<>> ]
        ELSE IF response.status # "ok" \/ response.payload = "not_json"
        THEN [ parts |-> cache.parts, vehicle_results |-> IF caching
                                  THEN cache_vehicle_result(looked.dict, cache.max_results,
                                           VehiclePartsResult(make, year, model, carcode,
                                                              category_group_name, <<>>),
                                           cache_key)
                                  ELSE looked.dict, value |-> Absent,
               error |-> "Exception", outcome |-> "raise",
               sent |-> 1, posts |-> <<"groupname">> ]
        ELSE [ parts |-> IF caching
                         THEN CacheParts(cache.parts, cache.max_parts, found)
                         ELSE cache.parts, vehicle_results |->
                   IF caching
                   THEN cache_vehicle_result(looked.dict, cache.max_results,
                                             result, cache_key)
                   ELSE looked.dict, value |-> result,
               error |-> None, outcome |-> "return",
               sent |-> 1,
               posts |-> <<"groupname">> ]

\* cache is the client's cache state before the call, response the answer
\* to the one navnode_fetch request (nodetype groupname); the result holds
\* the cache afterwards, the requests posted, and what is returned or raised
get_parts_by_category(cache, make, year, model, carcode, category_group_name, response) ==
    LET caching == cache.has_cache /\ cache.enabled
        cache_key == generate_vehicle_cache_key(make, model, Str(year), carcode,
                                                category_group_name)
        looked == IF caching THEN get_vehicle_result(cache.vehicle_results, cache_key)
                  ELSE [dict |-> cache.vehicle_results, value |-> Absent]
        found == IF response.payload = "sections"
                 THEN PartsFound(response.items, response.links) ELSE <<>>
        result == VehiclePartsResult(make, year, model, carcode,
                                     category_group_name, found)
    IN  IF looked.value # Absent
        THEN [ parts |-> cache.parts, vehicle_results |-> looked.dict, value |-> looked.value,
               error |-> None, outcome |-> "return",
               sent |-> 0, posts |-> <<>> ]
        ELSE IF response.status # "ok" \/ response.payload = "not_json"
        THEN [ parts |-> cache.parts, vehicle_results |-> looked.dict, value |-> Absent,
               error |-> "Exception", outcome |-> "raise",
               sent |-> 1, posts |-> <<"groupname">> ]
        ELSE [ parts |-> IF caching
                         THEN CacheParts(cache.parts, cache.max_parts, found)
                         ELSE cache.parts, vehicle_results |->
                   IF caching
                   THEN cache_vehicle_result(looked.dict, cache.max_results,
                                             result, cache_key)
                   ELSE looked.dict, value |-> result,
               error |-> None, outcome |-> "return",
               sent |-> 1,
               posts |-> <<"groupname">> ]

\* an optional argument: not given (None), or given with a value
Optional(S) == { [given |-> FALSE] } \cup [ v : S, given : {TRUE} ]

\* RockAutoClient.configure_cache: the cache settings afterwards.  max_parts
\* and max_results stand for both cache_config's and the PartCache's copy:
\* the two are written together and a new PartCache is built from cache_config.
configure_cache(cache, enable_caching, max_cached_parts, max_cached_searches) ==
    LET dropped == enable_caching.given /\ ~enable_caching.v
        created == enable_caching.given /\ enable_caching.v /\ ~cache.has_cache
    IN  [ parts |-> IF dropped \/ created THEN EmptyMap ELSE cache.parts,
          vehicle_results |-> IF dropped \/ created THEN EmptyMap
                              ELSE cache.vehicle_results,
          max_parts |-> IF max_cached_parts.given THEN max_cached_parts.v
                        ELSE cache.max_parts,
          max_results |-> IF max_cached_searches.given THEN max_cached_searches.v
                          ELSE cache.max_results,
          has_cache |-> IF dropped THEN FALSE
                        ELSE IF created THEN TRUE ELSE cache.has_cache,
          enabled |-> IF enable_caching.given THEN enable_caching.v ELSE cache.enabled ]

(***************************************************************************)
(* Specification SpecClient: one client, its part cache, the clock and     *)
(* the site's answers to navnode_fetch                                     *)
(***************************************************************************)
\* navnode_fetch requests are counted up to this many
MaxFetches == 2

\* the arguments of get_parts_by_category
CallArgs ==
    [ make : { T_Honda, T_HONDA }, model : { T_Civic }, year : { 2020 },
      carcode : { <<"c","1">>, <<"c","2">> },
      category_group_name : { <<"B","r","a","k","e","+","P","a","d">> } ]

\* the parts the extractor finds in a response
FoundLists == { <<>>, <<PartInfoOf("P1"), PartInfoOf("P2")>> }

\* the answers to navnode_fetch: a JSON object with the parts section, one
\* without it, a body that is not JSON, or no usable response
FetchResponses ==
    [ status : {"ok"}, links : { <<>> }, items : FoundLists, payload : {"sections"} ]
    \cup [ status : {"ok"}, links : { <<>> },
           items : { <<>> }, payload : {"no_sections", "not_json"} ]
    \cup [ status : {"http_error", "network_error"}, links : { <<>> },
           items : { <<>> }, payload : {"not_json"} ]

CacheState ==
    [ parts |-> parts, vehicle_results |-> vehicle_results, max_parts |-> max_parts,
      max_results |-> max_results, has_cache |-> has_cache,
      enabled |-> cache_enabled ]

clientUnchanged ==
    UNCHANGED <<pureVars, infoVars, pricingVars, half, configVars, dropdownVars,
                is_authenticated, user_email, cookies>>

\* the constructor: enable_caching, max_cached_parts, max_cached_searches
ClientInit ==
    /\ PureIdle /\ InfoIdle /\ PricingIdle
    /\ now = 0
    /\ cache_enabled \in BOOLEAN
    /\ has_cache = cache_enabled
    /\ ConfigIdle /\ DropdownIdle
    /\ parts = EmptyMap /\ vehicle_results = EmptyMap
    /\ max_parts = MaxCap
    /\ max_results = MaxCap
    /\ half = "both"
    /\ is_authenticated = FALSE /\ user_email = None
    /\ cookies = InitialCookies
    /\ requests = 0
    /\ ret = NoRet

GetPartsByCategory ==
    \E a \in CallArgs, response \in FetchResponses :
        \E r \in { get_parts_by_category(CacheState, a.make, a.year, a.model,
                                         a.carcode, a.category_group_name, response) } :
        LET args == <<a.make, a.year, a.model, a.carcode, a.category_group_name>>
        IN  /\ requests + r.sent <= MaxFetches
            /\ \A i \in 1..Len(r.vehicle_results) :
                   r.vehicle_results[i].val.access_count <= MaxAccess
            /\ parts' = r.parts
            /\ vehicle_results' = r.vehicle_results
            /\ requests' = requests + r.sent
            /\ ret' = [ op |-> "get_parts_by_category", value |-> r.value,
                        outcome |-> r.outcome, sent |-> r.sent, args |-> args,
                        repeats |-> /\ ret.op = "get_parts_by_category"
                                    /\ ret.outcome = "return"
                                    /\ ret.args = args ]
            /\ UNCHANGED <<now, cache_enabled, has_cache, max_parts, max_results>>
            /\ clientUnchanged

\* the calls that give at most one argument: configure_cache handles its
\* arguments one after the other, so a call that gives several does what
\* the calls giving each of them do in turn
ConfigureArgs ==
    { a \in [ enable_caching : Optional(BOOLEAN),
              max_cached_parts : Optional({1}),
              max_cached_searches : Optional({1}) ] :
        Cardinality({ f \in {"enable_caching", "max_cached_parts", "max_cached_searches"} :
                        a[f].given }) <= 1 }

ConfigureCache ==
    \E a \in ConfigureArgs :
    \E c \in { configure_cache(CacheState, a.enable_caching, a.max_cached_parts,
                               a.max_cached_searches) } :
            /\ cache_enabled' = c.enabled
            /\ has_cache' = c.has_cache
            /\ parts' = c.parts
            /\ vehicle_results' = c.vehicle_results
            /\ max_parts' = c.max_parts
            /\ max_results' = c.max_results
            /\ ret' = [ op |-> "configure_cache", outcome |-> "return" ]
            /\ UNCHANGED <<now, requests>>
            /\ clientUnchanged

\* the clock of this specification moves by the result TTL: a result is
\* looked up when new, at the very end of its 12 hours, and 12 hours later
TickHalfDay ==
    /\ now <= LongTick
    /\ now' = now + LongTick
    /\ UNCHANGED <<pureVars, infoVars, partVars, pricingVars, clientVars, ret>>

ClientNext ==
    \/ GetPartsByCategory
    \/ ConfigureCache
    \/ TickHalfDay

SpecClient == ClientInit /\ [][ClientNext]_vars

\* the key get_parts_by_category looks its arguments up under
KeyOfCall(args) ==
    generate_vehicle_cache_key(args[1], args[3], Str(args[2]), args[4], args[5])

\* no result is cached under the key that has passed its 12 hours
NoneExpired(cache_key) ==
    \A i \in 1..Len(vehicle_results) :
        vehicle_results[i].key = cache_key
        => ~CachedVehiclePartsResult_is_expired(vehicle_results[i].val, ResultTtlHours)

\* C1: with caching enabled, a get_parts_by_category call that directly
\* follows a successful call with the same make, year, model, carcode and
\* category sends no request and returns the result the first call returned
\* (so the two calls send one request when the first one fetched), provided
\* the result cached for these arguments has not passed its 12 hours by the
\* second call.
C1_SecondCallIsCacheHit ==
    [][ ( /\ ret.op = "get_parts_by_category"
          /\ ret.outcome = "return"
          /\ cache_enabled /\ has_cache
          /\ ret'.op = "get_parts_by_category"
          /\ now' = now
          /\ ret'.args = ret.args
          /\ NoneExpired(KeyOfCall(ret.args)) )
        => /\ ret'.outcome = "return"
           /\ ret'.sent = 0
           /\ ret.sent <= 1
           /\ requests' = requests
           /\ ret'.value = ret.value ]_vars

\* one fetch so far, by the first call; later the same call again, served
\* from the cache
C1_Witness ==
    /\ ret.op = "get_parts_by_category"
    /\ ret.repeats
    /\ ret.outcome = "return"
    /\ ret.sent = 0
    /\ now > 0
    /\ requests = 1
    /\ \E i \in 1..Len(vehicle_results) :
           /\ vehicle_results[i].key = KeyOfCall(ret.args)
           /\ vehicle_results[i].val.cached_at < now
           /\ vehicle_results[i].val.access_count = 2

(***************************************************************************)
(* Specification SpecTtl: the client's part cache under the TTLs the       *)
(* client was given (constructor and configure_cache)                      *)
(***************************************************************************)
\* RockAutoClient.configure_cache, its part_cache_hours and
\* search_cache_hours arguments: the two settings afterwards
configure_cache_hours(config, part_cache_hours, search_cache_hours) ==
    [ part_ttl_hours |-> IF part_cache_hours.given THEN part_cache_hours.v
                         ELSE config.part_ttl_hours,
      result_ttl_hours |-> IF search_cache_hours.given THEN search_cache_hours.v
                           ELSE config.result_ttl_hours ]

\* the hours a caller configures: one hour, and the default
TtlHours == { 1, PartTtlHours }

\* the constructor: part_cache_hours and search_cache_hours
TtlInit ==
    /\ PureIdle /\ InfoIdle /\ PricingIdle /\ DropdownIdle
    /\ now = 0
    /\ cache_enabled = TRUE /\ has_cache = TRUE
    /\ parts = EmptyMap /\ vehicle_results = EmptyMap
    /\ max_parts = MaxCap /\ max_results = MaxCap
    /\ half \in {"parts", "results"}
    /\ part_ttl_hours \in TtlHours /\ result_ttl_hours \in TtlHours
    /\ half = "parts" => result_ttl_hours = ResultTtlHours
    /\ half = "results" => part_ttl_hours = PartTtlHours
    /\ is_authenticated = FALSE /\ user_email = None
    /\ cookies = InitialCookies
    /\ requests = 0
    /\ ret = NoRet

ConfigureCacheHours ==
    \E h \in Optional(TtlHours) :
    LET config == [ part_ttl_hours |-> part_ttl_hours,
                    result_ttl_hours |-> result_ttl_hours ]
        not_given == [ given |-> FALSE ]
    IN  \E c \in { IF half = "parts"
                   THEN configure_cache_hours(config, h, not_given)
                   ELSE configure_cache_hours(config, not_given, h) } :
        /\ part_ttl_hours' = c.part_ttl_hours
        /\ result_ttl_hours' = c.result_ttl_hours
        /\ ret' = [ op |-> "configure_cache", outcome |-> "return" ]
        /\ UNCHANGED <<pureVars, infoVars, now, partVars, pricingVars, cache_enabled,
                       has_cache, dropdownVars, is_authenticated, user_email,
                       cookies, requests>>

TtlNext ==
    \/ GetPart \/ CachePart \/ GetVehicleResult \/ CacheVehicleResult
    \/ ConfigureCacheHours \/ TickMinute \/ TickLong

SpecTtl == TtlInit /\ [][TtlNext]_vars

\* C14 for get_part
C14_GetPart ==
    \A pn \in PartNumbers :
        (IsCall("get_part") /\ ret'.key = pn /\ pn \in DictKeys(parts)) =>
            IF now - DictGet(parts, pn).cached_at > part_ttl_hours * MinutesPerHour
            THEN ret'.value = Absent
            ELSE ret'.value = DictGet(parts, pn).part_info

\* C14 for get_vehicle_result
C14_GetVehicleResult ==
    \A k \in ResultKeys :
        (IsCall("get_vehicle_result") /\ ret'.key = k /\ k \in DictKeys(vehicle_results)) =>
            IF now - DictGet(vehicle_results, k).cached_at
                   > result_ttl_hours * MinutesPerHour
            THEN ret'.value = Absent
            ELSE ret'.value = DictGet(vehicle_results, k).result

\* C14: get_part and get_vehicle_result return absent for a stored entry
\* exactly when its age exceeds the part_cache_hours / search_cache_hours the
\* client was configured with, and return the entry otherwise.
C14_ConfiguredTtl == [][C14_GetPart /\ C14_GetVehicleResult]_vars

(***************************************************************************)
(* The parts-search dropdowns: get_manufacturers, get_part_groups and      *)
(* get_part_types, each with its own cache attribute on the client         *)
(***************************************************************************)
\* the <option> elements kept: those with a text, as PartSearchOption
PartSearchOptions(select) ==
    SelectSeq(select.options, LAMBDA option : Len(option.text) > 0)

\* what the three getters do alike.  cached is the getter's cache attribute,
\* select the <select> element of the page (Absent when the page has none);
\* the result names what is returned and the cache attribute afterwards
get_options(cached, use_cache, response, select, field) ==
    IF use_cache /\ cached # Absent
    THEN [ value |-> cached, outcome |-> "return", sent |-> 0, cache |-> cached ]
    ELSE IF response.status # "ok" \/ select = Absent
    THEN [ value |-> Absent, outcome |-> "raise", sent |-> 1, cache |-> cached ]
    ELSE LET options == (field :> PartSearchOptions(select))
                        @@ [ count |-> Len(PartSearchOptions(select)),
                             last_updated |-> now ]
         IN  [ value |-> options, outcome |-> "return", sent |-> 1,
               cache |-> options ]

\* RockAutoClient.get_manufacturers
get_manufacturers(cached, use_cache, response) ==
    get_options(cached, use_cache, response, response.manufacturer_select, "manufacturers")

\* RockAutoClient.get_part_groups
get_part_groups(cached, use_cache, response) ==
    get_options(cached, use_cache, response, response.part_group_select, "part_groups")

\* RockAutoClient.get_part_types
get_part_types(cached, use_cache, response) ==
    get_options(cached, use_cache, response, response.part_type_select, "part_types")

(***************************************************************************)
(* Specification SpecDropdown: the dropdown getters and configure_cache    *)
(***************************************************************************)
\* a <select> of the parts-search page: one option without a text and one
\* or two with a text
Selects ==
    { [ options |-> << [value |-> "", text |-> <<>>],
                       [value |-> "1", text |-> <<"A">>] >> ],
      [ options |-> << [value |-> "1", text |-> <<"A">>],
                       [value |-> "2", text |-> <<"B">>] >> ] }

\* the answers to GET /en/partsearch/: the page with its three dropdowns, a
\* page without them, or no usable response
SearchPages ==
    { [ status |-> "ok", manufacturer_select |-> s, part_group_select |-> s,
        part_type_select |-> s ] : s \in Selects \cup { Absent } }
    \cup { [ status |-> st, manufacturer_select |-> Absent,
             part_group_select |-> Absent, part_type_select |-> Absent ] :
           st \in {"http_error", "network_error"} }

\* the constructor: enable_caching
DropdownInit ==
    /\ PureIdle /\ InfoIdle /\ PricingIdle /\ ConfigIdle /\ DropdownIdle
    /\ now = 0
    /\ cache_enabled \in BOOLEAN
    /\ has_cache = cache_enabled
    /\ parts = EmptyMap /\ vehicle_results = EmptyMap
    /\ max_parts = MaxCap /\ max_results = MaxCap
    /\ half = "both"
    /\ is_authenticated = FALSE /\ user_email = None
    /\ cookies = InitialCookies
    /\ requests = 0
    /\ ret = NoRet

\* what a getter call leaves alone besides the two other dropdown caches
dropdownUnchanged ==
    UNCHANGED <<pureVars, infoVars, now, partVars, pricingVars, cache_enabled,
                has_cache, configVars, is_authenticated, user_email, cookies>>

Got(op, use_cache, r) ==
    /\ requests + r.sent <= MaxRequests
    /\ requests' = requests + r.sent
    /\ ret' = [ op |-> op, value |-> r.value, outcome |-> r.outcome,
                sent |-> r.sent, use_cache |-> use_cache ]
    /\ dropdownUnchanged

GetManufacturers ==
    \E use_cache \in BOOLEAN, response \in SearchPages :
    \E r \in { get_manufacturers(manufacturer_cache, use_cache, response) } :
        /\ manufacturer_cache' = r.cache
        /\ UNCHANGED <<part_group_cache, part_type_cache>>
        /\ Got("get_manufacturers", use_cache, r)

GetPartGroups ==
    \E use_cache \in BOOLEAN, response \in SearchPages :
    \E r \in { get_part_groups(part_group_cache, use_cache, response) } :
        /\ part_group_cache' = r.cache
        /\ UNCHANGED <<manufacturer_cache, part_type_cache>>
        /\ Got("get_part_groups", use_cache, r)

GetPartTypes ==
    \E use_cache \in BOOLEAN, response \in SearchPages :
    \E r \in { get_part_types(part_type_cache, use_cache, response) } :
        /\ part_type_cache' = r.cache
        /\ UNCHANGED <<manufacturer_cache, part_group_cache>>
        /\ Got("get_part_types", use_cache, r)

DropdownNext ==
    \/ GetManufacturers \/ GetPartGroups \/ GetPartTypes \/ ConfigureCache

SpecDropdown == DropdownInit /\ [][DropdownNext]_vars

FetchingOps ==
    { "get_parts_by_category", "get_manufacturers", "get_part_groups",
      "get_part_types" }

\* C15: while caching is disabled (by the constructor or by configure_cache),
\* every call of get_parts_by_category, get_manufacturers, get_part_groups
\* and get_part_types sends its request: none is answered from a stored value.
C15_DisabledAlwaysFetches ==
    [][ (ret'.op \in FetchingOps /\ now' = now /\ ~cache_enabled)
        => /\ ret'.sent = 1
           /\ requests' = requests + 1 ]_vars

\* C15, the part that holds: with caching disabled, get_parts_by_category
\* always sends its request.
C15_PartsAlwaysFetched ==
    [][ (ret'.op = "get_parts_by_category" /\ now' = now /\ ~cache_enabled)
        => ret'.sent = 1 ]_vars

(***************************************************************************)
(* get_parts_by_category that fails                                        *)
(***************************************************************************)
\* this step is a get_parts_by_category call that raises
FailedPartsCall ==
    /\ ret'.op = "get_parts_by_category"
    /\ ret'.outcome = "raise"
    /\ now' = now

\* C16: when get_parts_by_category raises, the part cache and the result
\* cache hold after the call exactly what they held before it.
C16_FailureLeavesCache ==
    [][ FailedPartsCall
        => /\ parts' = parts
           /\ vehicle_results' = vehicle_results ]_vars

\* the result cache without the expired result stored under cache_key
WithoutExpired(d, cache_key) ==
    SelectSeq(d, LAMBDA it :
        ~(it.key = cache_key
          /\ CachedVehiclePartsResult_is_expired(it.val, ResultTtlHours)))

\* C16 as amended: when get_parts_by_category raises, nothing of the failed
\* call is stored:
\* the part cache holds what it held before the call, and the result cache
\* holds what it held before except that the result cached under the call's
\* own key is gone if it had expired (the lookup that precedes the fetch
\* removes it).
C16_FailureStoresNothing ==
    [][ FailedPartsCall
        => /\ parts' = parts
           /\ vehicle_results' = WithoutExpired(vehicle_results, KeyOfCall(ret'.args))
           /\ ret'.sent = 1 ]_vars

\* a fetch that stored two parts and a result, and half a day and more
\* later a failed fetch for the same vehicle: the parts are still cached,
\* the expired result is gone
C16_Witness ==
    /\ ret.op = "get_parts_by_category"
    /\ ret.outcome = "raise"
    /\ requests = 2
    /\ now > LongTick
    /\ Len(parts) = 2
    /\ vehicle_results = EmptyMap

(***************************************************************************)
(* RockAutoClient.get_part_categories                                      *)
(***************************************************************************)
\* text.lower().replace(" ", "+").replace("&", "%26")
RECURSIVE group_name(_)
group_name(text) ==
    IF Len(text) = 0 THEN <<>>
    ELSE LET c == LowerChar(Head(text))
         IN  (IF c = " " THEN <<"+">>
              ELSE IF c = "&" THEN <<"%","2","6">>
              ELSE <<c>>) \o group_name(Tail(text))

\* PartCategory(name=text, group_name=..., href=href) of one link
PartCategory(link) ==
    [ name |-> link.text, group_name |-> group_name(link.text), href |-> link.href ]

\* the loop over the a[href] elements: a category for every link whose
\* text is longer than two characters, in document order
RECURSIVE CategoriesFound(_)
CategoriesFound(links) ==
    IF Len(links) = 0 THEN <<>>
    ELSE (IF Len(Head(links).text) > 2 THEN <<PartCategory(Head(links))>> ELSE <<>>)
         \o CategoriesFound(Tail(links))

\* response is the answer to the one navnode_fetch request (nodetype
\* carcode); the result names the requests posted and what is returned or
\* raised
get_part_categories(make, year, model, carcode, response) ==
    LET categories == IF response.payload = "sections"
                      THEN CategoriesFound(response.links) ELSE <<>>
    IN  IF response.status # "ok" \/ response.payload = "not_json"
        THEN [ value |-> Absent, error |-> "Exception", outcome |-> "raise",
               sent |-> 1, posts |-> <<"carcode">> ]
        ELSE [ value |-> [ make |-> Upper(make), model |-> Upper(model), year |-> year,
                           count |-> Len(categories), carcode |-> carcode,
                           categories |-> categories ],
               error |-> None,
               outcome |-> "return", sent |-> 1, posts |-> <<"carcode">> ]

(***************************************************************************)
(* Specification SpecLookup: the two deep lookups of one vehicle against   *)
(* the pages the site may answer with                                      *)
(***************************************************************************)
\* the longest list of elements in a page
MaxElements == 2

SeqUpTo(S, n) == UNION { [1..k -> S] : k \in 0..n }

\* the links of a category page: two texts, one of them with a blank and an
\* ampersand, and one text too short for a category
CategoryLinks ==
    { [ text |-> t, href |-> "/en/catalog/x" ] :
        t \in { <<"B","r","a","k","e">>, <<"A"," ","&"," ","B">>, <<"A","C">> } }

\* a part as the extractor returns it
PartNamed(name, part_number) == [ part_number |-> part_number, name |-> name ]

\* what the extractor makes of an element of a parts page: nothing, or a
\* part; two of the parts have the same name
PartElements ==
    { Absent, PartNamed("Pad", "P1"), PartNamed("Pad", "P2"), PartNamed("Rotor", "P3") }

\* the answers that are no block page: JSON with the section, JSON without
\* it, a body that is not JSON, or no usable response
PlainAnswers ==
    [ status : {"ok"}, payload : {"no_sections", "not_json"}, captcha : {FALSE} ]
    \cup [ status : {"http_error", "network_error"}, payload : {"not_json"},
           captcha : {FALSE} ]

\* the answers that are the site's CAPTCHA / block page: an HTML page, with
\* status 200 or an error status, or a JSON body without the section
BlockAnswers ==
    [ status : {"ok"}, payload : {"no_sections", "not_json"}, captcha : {TRUE} ]
    \cup [ status : {"http_error"}, payload : {"not_json"}, captcha : {TRUE} ]

CategoryResponses ==
    [ status : {"ok"}, links : SeqUpTo(CategoryLinks, MaxElements), payload : {"sections"},
      captcha : {FALSE} ]
    \cup { a @@ [ links |-> <<>> ] : a \in PlainAnswers \cup BlockAnswers }

\* the fallback links matter only on a page without a structured part
PartsResponses ==
    [ status : {"ok"}, links : { <<>> }, items : SeqUpTo(PartElements, MaxElements),
      payload : {"sections"}, captcha : {FALSE} ]
    \cup [ status : {"ok"}, links : SeqUpTo(PartElements, MaxElements), items : { <<>>, <<Absent>> },
           payload : {"sections"}, captcha : {FALSE} ]
    \cup { a @@ [ links |-> <<>>, items |-> <<>> ] : a \in PlainAnswers \cup BlockAnswers }

\* the vehicle and category looked up
LookupArgs ==
    [ make |-> T_Honda, model |-> T_Civic, year |-> 2020, carcode |-> <<"c","1">>,
      category_group_name |-> <<"B","r","a","k","e","+","P","a","d">> ]

\* the constructor: enable_caching
LookupInit ==
    /\ PureIdle /\ InfoIdle /\ PricingIdle /\ ConfigIdle /\ DropdownIdle
    /\ now = 0
    /\ cache_enabled \in BOOLEAN
    /\ has_cache = cache_enabled
    /\ parts = EmptyMap /\ vehicle_results = EmptyMap
    /\ max_parts = MaxCap /\ max_results = MaxCap
    /\ half = "both"
    /\ is_authenticated = FALSE /\ user_email = None
    /\ cookies = InitialCookies
    /\ requests = 0
    /\ ret = NoRet

\* the names, in document order, of the entries a page yields
NamesOf(entries) == [ i \in 1..Len(entries) |-> entries[i].name ]

\* what a lookup did: seen are the names of the entries the page yielded
Looked(op, r, response, seen) ==
    /\ requests + r.sent <= MaxFetches
    /\ requests' = requests + r.sent
    /\ ret' = [ op |-> op, value |-> r.value, error |-> r.error,
                outcome |-> r.outcome, sent |-> r.sent, posts |-> r.posts,
                captcha |-> (r.sent > 0 /\ response.captcha),
                seen |-> IF r.sent > 0 /\ r.outcome = "return" THEN seen ELSE <<>> ]
    /\ UNCHANGED <<now, cache_enabled, has_cache, max_parts, max_results>>
    /\ clientUnchanged

LookupCategories ==
    \E response \in CategoryResponses :
    \E r \in { get_part_categories(LookupArgs.make, LookupArgs.year, LookupArgs.model,
                                   LookupArgs.carcode, response) } :
        /\ UNCHANGED <<parts, vehicle_results>>
        /\ Looked("get_part_categories", r, response,
                  NamesOf(CategoriesFound(response.links)))

LookupParts ==
    \E response \in PartsResponses :
    \E r \in { get_parts_by_category(CacheState, LookupArgs.make, LookupArgs.year,
                                     LookupArgs.model, LookupArgs.carcode,
                                     LookupArgs.category_group_name, response) } :
        /\ \A i \in 1..Len(r.vehicle_results) :
               r.vehicle_results[i].val.access_count <= MaxAccess
        /\ parts' = r.parts
        /\ vehicle_results' = r.vehicle_results
        /\ Looked("get_parts_by_category", r, response,
                  NamesOf(SelectSeq(response.items \o response.links,
                                    LAMBDA e : e # Absent)))

LookupNext == LookupCategories \/ LookupParts

SpecLookup == LookupInit /\ [][LookupNext]_vars

DeepLookups == { "get_part_categories", "get_parts_by_category" }

\* this step is a deep lookup that went to the site
DeepLookupStep ==
    /\ ret'.op \in DeepLookups
    /\ requests' > requests

\* C17: a deep lookup (get_part_categories, get_parts_by_category) that goes
\* to the site posts the navigation-simulation request (navnode_fetch with
\* nodetype make) first and its own request after it.
C17_PrimingBeforeLookup ==
    [][ DeepLookupStep
        => /\ Len(ret'.posts) = 2
           /\ ret'.posts[1] = "make"
           /\ ret'.posts[2] \in {"carcode", "groupname"} ]_vars

\* the error every failed lookup raises, whatever went wrong
GenericError == "Exception"

\* C18: a lookup answered with the CAPTCHA / block page raises an error that
\* is not the one every other failure raises, returns no result, and caches
\* nothing.
C18_BlockIsDistinguished ==
    [][ (DeepLookupStep /\ ret'.captcha)
        => /\ ret'.outcome = "raise"
           /\ ret'.error # GenericError
           /\ UNCHANGED <<parts, vehicle_results>> ]_vars

\* the list without the later occurrences of a name
RECURSIVE FirstSeen(_, _)
FirstSeen(names, acc) ==
    IF Len(names) = 0 THEN acc
    ELSE FirstSeen(Tail(names),
                   IF \E i \in 1..Len(acc) : acc[i] = Head(names) THEN acc
                   ELSE Append(acc, Head(names)))

\* C20: the categories returned by get_part_categories and the parts
\* returned by a get_parts_by_category that fetched them hold no name twice,
\* and hold the names the page yielded in first-seen order.
C20_DedupByName ==
    [][ (DeepLookupStep /\ ret'.outcome = "return")
        => LET entries == IF ret'.op = "get_part_categories"
                          THEN ret'.value.categories ELSE ret'.value.parts
           IN  /\ \A i, j \in 1..Len(entries) :
                     entries[i].name = entries[j].name => i = j
               /\ NamesOf(entries) = FirstSeen(ret'.seen, <<>>) ]_vars

(***************************************************************************)
(* RockAutoClient.get_engines_for_vehicle                                  *)
(***************************************************************************)
\* str.split(sep) for a separator of one character
RECURSIVE Split(_, _)
Split(s, sep) ==
    IF \A i \in 1..Len(s) : s[i] # sep THEN <<s>>
    ELSE LET i == CHOOSE k \in 1..Len(s) :
                      s[k] = sep /\ \A j \in 1..(k - 1) : s[j] # sep
         IN  <<SubSeq(s, 1, i - 1)>> \o Split(SubSeq(s, i + 1, Len(s)), sep)

\* str.replace("+", " ")
PlusToBlank(s) == [ i \in 1..Len(s) |-> IF s[i] = "+" THEN " " ELSE s[i] ]

\* f"/{make.lower()},{year},{model.lower()},"
EnginePrefix(make, year, model) ==
    <<"/">> \o Lower(make) \o <<",">> \o Str(year) \o <<",">> \o Lower(model) \o <<",">>

\* the Engine one link yields, or Absent when the link is passed over
EngineOf(href, prefix) ==
    IF ~Contains(prefix, href) THEN Absent
    ELSE LET parts_ == Split(href, ",")
         IN  IF Len(parts_) < 5 THEN Absent
             ELSE IF Len(parts_[4]) > 0 /\ Len(parts_[5]) > 0 /\ IsDigit(parts_[5])
                  THEN [ carcode |-> parts_[5], href |-> href,
                         description |-> PlusToBlank(parts_[4]) ]
                  ELSE Absent

\* the loop over the a[href] elements: an engine is appended unless an
\* engine with its carcode is in the list already.  This variant
\* keeps the engine seen last under a carcode.
RECURSIVE EnginesFound_KeepLast(_, _, _)
EnginesFound_KeepLast(links, prefix, engines) ==
    IF Len(links) = 0 THEN engines
    ELSE LET engine == EngineOf(Head(links), prefix)
         IN  EnginesFound_KeepLast(Tail(links), prefix,
                 IF engine = Absent THEN engines
                 ELSE IF \E i \in 1..Len(engines) : engines[i].carcode = engine.carcode
                      THEN [ i \in 1..Len(engines) |->
                               IF engines[i].carcode = engine.carcode
                               THEN engine ELSE engines[i] ]
                      ELSE Append(engines, engine))

RECURSIVE EnginesFound(_, _, _)
EnginesFound(links, prefix, engines) ==
    IF Len(links) = 0 THEN engines
    ELSE LET engine == EngineOf(Head(links), prefix)
         IN  EnginesFound(Tail(links), prefix,
                 IF engine = Absent THEN engines
                 ELSE IF \E i \in 1..Len(engines) : engines[i].carcode = engine.carcode
                      THEN engines
                      ELSE Append(engines, engine))

\* VehicleEngines(make=make.upper(), ..., engines=engines, count=len(engines))
VehicleEngines(make, year, model, engines) ==
    [ value |-> [ make |-> Upper(make), model |-> Upper(model), year |-> year,
                  count |-> Len(engines), engines |-> engines ],
      outcome |-> "return" ]

get_engines_for_vehicle_KeepLast(make, year, model, response) ==
    IF response.status # "ok" THEN [ value |-> Absent, outcome |-> "raise" ]
    ELSE VehicleEngines(make, year, model,
             EnginesFound_KeepLast(response.links, EnginePrefix(make, year, model), <<>>))

\* response is the answer to the GET of the model's catalog page: a failed
\* request or an error status raises, a page yields the engines of its links
get_engines_for_vehicle(make, year, model, response) ==
    IF response.status # "ok" THEN [ value |-> Absent, outcome |-> "raise" ]
    ELSE VehicleEngines(make, year, model,
             EnginesFound(response.links, EnginePrefix(make, year, model), <<>>))

(***************************************************************************)
(* Specification SpecEngines: get_engines_for_vehicle against the catalog  *)
(* pages of a model                                                        *)
(***************************************************************************)
\* the longest list of links in a catalog page
MaxLinks == 3

CatalogPath == <<"/","e","n","/","c","a","t","a","l","o","g","/">>

T_honda == <<"h","o","n","d","a">>
T_civic == <<"c","i","v","i","c">>
T_accord == <<"a","c","c","o","r","d">>
T_15l == <<"1",".","5","l","+","l","4">>
T_20l == <<"2",".","0","l">>

\* the href of a catalog link with these fields
CatalogHref(fields) == CatalogPath \o Join(<<",">>, fields)

\* the links of a catalog page: engines of the model (two of them under the
\* carcode 111), the model's own link, a link of four fields, a carcode
\* that is no number, an empty description, an engine of another model
CatalogHrefs ==
    { CatalogHref(f) : f \in
        { <<T_honda, Str(2020), T_civic, T_15l, <<"1","1","1">>>>,
          <<T_honda, Str(2020), T_civic, T_20l, <<"2","2","2">>>>,
          <<T_honda, Str(2020), T_civic, T_20l, <<"1","1","1">>>>,
          <<T_honda, Str(2020), T_civic>>,
          <<T_honda, Str(2020), T_civic, T_20l>>,
          <<T_honda, Str(2020), T_civic, T_20l, <<"2","2","a">>>>,
          <<T_honda, Str(2020), T_civic, <<>>, <<"4","4","4">>>>,
          <<T_honda, Str(2020), T_accord, T_20l, <<"3","3","3">>>> } }

EnginePages ==
    [ status : {"ok"}, links : UNION { [1..k -> CatalogHrefs] : k \in 0..MaxLinks } ]
    \cup [ status : {"http_error", "network_error"}, links : { <<>> } ]

\* the call's make, written in either case, and the page the site serves
EngineCalls == [ make : { T_Honda, T_HONDA }, response : EnginePages ]

EnginesInit ==
    /\ InfoIdle /\ PartIdle /\ PricingIdle /\ ClientIdle
    /\ now = 0
    /\ arg \in EngineCalls
    /\ out = NotRun
    /\ ret = NoRet

\* the call for the vehicle
GetEnginesForVehicle ==
    /\ ret.op = "none"
    /\ \E r \in { get_engines_for_vehicle(arg.make, 2020, T_Civic, arg.response) } :
        /\ ret' = [ op |-> "get_engines_for_vehicle", make |-> arg.make,
                    value |-> r.value, outcome |-> r.outcome,
                    links |-> arg.response.links ]
    /\ UNCHANGED <<pureVars, infoVars, now, partVars, pricingVars, clientVars>>

EnginesNext == GetEnginesForVehicle

SpecEngines == EnginesInit /\ [][EnginesNext]_vars

\* the engines of the matching links of the page, in document order
MatchingEngines ==
    SelectSeq([ i \in 1..Len(ret.links) |->
                  EngineOf(ret.links[i], EnginePrefix(ret.make, 2020, T_Civic)) ],
              LAMBDA e : e # Absent)

\* the place of the first matching link with this carcode
FirstWith(carcode) ==
    CHOOSE i \in 1..Len(MatchingEngines) :
        /\ MatchingEngines[i].carcode = carcode
        /\ \A j \in 1..(i - 1) : MatchingEngines[j].carcode # carcode

\* C19: get_engines_for_vehicle returns no two engines with the same
\* carcode; count is the number of distinct carcodes among the matching
\* engine links; the engine kept for a carcode is the first one seen with
\* it, and the engines are in first-seen order.
C19_EnginesDedupByCarcode ==
    (ret.op = "get_engines_for_vehicle" /\ ret.outcome = "return")
    => LET engines == ret.value.engines
           carcodes == { MatchingEngines[i].carcode : i \in 1..Len(MatchingEngines) }
       IN  /\ \A i, j \in 1..Len(engines) :
                 engines[i].carcode = engines[j].carcode => i = j
           /\ ret.value.count = Cardinality(carcodes)
           /\ Len(engines) = ret.value.count
           /\ { engines[i].carcode : i \in 1..Len(engines) } = carcodes
           /\ \A i \in 1..Len(engines) :
                 engines[i] = MatchingEngines[FirstWith(engines[i].carcode)]
           /\ \A i, j \in 1..Len(engines) :
                 i < j => FirstWith(engines[i].carcode) < FirstWith(engines[j].carcode)

\* a page with the carcode 111 under two descriptions and another engine
\* between them: two engines are returned, the first description kept
C19_Witness ==
    /\ ret.op = "get_engines_for_vehicle" /\ ret.outcome = "return"
    /\ Len(MatchingEngines) = 3
    /\ MatchingEngines[1].carcode = MatchingEngines[3].carcode
    /\ MatchingEngines[1].description # MatchingEngines[3].description
    /\ MatchingEngines[2].carcode # MatchingEngines[1].carcode
    /\ ret.value.count = 2
    /\ ret.value.engines[1] = MatchingEngines[1]

(***************************************************************************)
(* Eviction and access bookkeeping of PartCache                            *)
(***************************************************************************)
\* the entry of key k in the dict d
EntryOf(d, k) == DictGet(d, k)

\* the keys whose entries nothing in d is older than, by last_accessed
LeastRecent(d) ==
    { k \in DictKeys(d) :
        \A j \in DictKeys(d) : EntryOf(d, k).last_accessed <= EntryOf(d, j).last_accessed }

\* this step is cache_vehicle_result(result, k) on a full result cache
FullResultInsert(k) ==
    /\ IsCall("cache_vehicle_result") /\ ret'.key = k
    /\ Len(vehicle_results) >= max_results

\* C24 as stated for the entry read last: an entry that the call before
\* this one read from the cache, so that it was read after every other
\* entry was last read or written, is not evicted by the
\* cache_vehicle_result of a new key while another entry stays.
C24_ReadLastIsKept ==
    [][ \A k \in ResultKeys :
          ( /\ FullResultInsert(k)
            /\ k \notin DictKeys(vehicle_results)
            /\ ret.op = "get_vehicle_result" /\ ret.value # Absent
            /\ ret.key \in DictKeys(vehicle_results)
            /\ Len(vehicle_results) >= 2 )
          => ret.key \in DictKeys(vehicle_results') ]_vars

\* C24 as amended: cache_vehicle_result on a full result cache evicts
\* exactly one entry, one that no entry is older than by last_accessed, and
\* then stores its own; a cache hit sets the entry's last_accessed to the
\* time of the hit; so an entry whose last_accessed is later than another
\* entry's is not evicted by the call.
C24_EvictsLeastRecent ==
    [][ /\ \A k \in ResultKeys :
              FullResultInsert(k)
              => /\ \E e \in LeastRecent(vehicle_results) :
                        DictKeys(vehicle_results')
                            = (DictKeys(vehicle_results) \ {e}) \cup {k}
                 /\ \A a \in DictKeys(vehicle_results) \ LeastRecent(vehicle_results) :
                        /\ a \in DictKeys(vehicle_results')
                        /\ a # k => EntryOf(vehicle_results', a) = EntryOf(vehicle_results, a)
        /\ \A k \in ResultKeys :
              (IsCall("get_vehicle_result") /\ ret'.key = k /\ ret'.value # Absent)
              => /\ EntryOf(vehicle_results', k).last_accessed = now
                 /\ k \notin LeastRecent(vehicle_results')
                    \/ \A j \in DictKeys(vehicle_results') :
                          EntryOf(vehicle_results', j).last_accessed = now ]_vars

\* a full cache of two results, the first read after the second was cached,
\* has just lost its second result to the insert of a third
C24_Witness ==
    /\ ret.op = "cache_vehicle_result" /\ ret.key = "k3" /\ ret.dropped = {"k2"}
    /\ max_results = 2
    /\ Len(vehicle_results) = 2
    /\ vehicle_results[1].key = "k1" /\ vehicle_results[1].val.access_count = 2
    /\ vehicle_results[1].val.last_accessed > vehicle_results[1].val.cached_at
    /\ vehicle_results[2].key = "k3"


\* C30: cache_part or cache_vehicle_result with a key that a full cache
\* already holds replaces that key's entry only: the cached keys are the
\* same before and after the call and every other entry is unchanged.
C30_RecacheOnlyReplaces ==
    [][ /\ \A pn \in PartNumbers :
              ( /\ IsCall("cache_part") /\ ret'.key = pn
                /\ pn \in DictKeys(parts) /\ Len(parts) >= max_parts )
              => /\ DictKeys(parts') = DictKeys(parts)
                 /\ \A j \in DictKeys(parts) \ {pn} :
                        EntryOf(parts', j) = EntryOf(parts, j)
        /\ \A k \in ResultKeys :
              ( /\ FullResultInsert(k) /\ k \in DictKeys(vehicle_results) )
              => /\ DictKeys(vehicle_results') = DictKeys(vehicle_results)
                 /\ \A j \in DictKeys(vehicle_results) \ {k} :
                        EntryOf(vehicle_results', j) = EntryOf(vehicle_results, j) ]_vars


\* the entries of d2 are those of d1, in the same order, but for the one of
\* key k
SameButFor(d1, d2, k) ==
    /\ Len(d2) = Len(d1)
    /\ \A i \in 1..Len(d1) :
          /\ d2[i].key = d1[i].key
          /\ d1[i].key # k => d2[i].val = d1[i].val

\* what a hit does to the entry before to give the entry after
AccessOnly(before, after) ==
    /\ after.access_count = before.access_count + 1
    /\ after.last_accessed = now
    /\ after.cached_at = before.cached_at

\* C26: a hit of get_part or get_vehicle_result adds one to the entry's
\* access_count and sets its last_accessed to the time of the call; the
\* entry's cached_at and stored value, and every other entry, are as
\* before, so the entry expires when it would have without the read.
C26_HitIsBookkeeping ==
    [][ /\ \A pn \in PartNumbers :
              (IsCall("get_part") /\ ret'.key = pn /\ ret'.value # Absent)
              => /\ pn \in DictKeys(parts)
                 /\ SameButFor(parts, parts', pn)
                 /\ AccessOnly(EntryOf(parts, pn), EntryOf(parts', pn))
                 /\ EntryOf(parts', pn).part_info = EntryOf(parts, pn).part_info
                 /\ ret'.value = EntryOf(parts, pn).part_info
                 /\ vehicle_results' = vehicle_results
        /\ \A k \in ResultKeys :
              (IsCall("get_vehicle_result") /\ ret'.key = k /\ ret'.value # Absent)
              => /\ k \in DictKeys(vehicle_results)
                 /\ SameButFor(vehicle_results, vehicle_results', k)
                 /\ AccessOnly(EntryOf(vehicle_results, k), EntryOf(vehicle_results', k))
                 /\ EntryOf(vehicle_results', k).result = EntryOf(vehicle_results, k).result
                 /\ EntryOf(vehicle_results', k).cache_key = k
                 /\ ret'.value = EntryOf(vehicle_results, k).result
                 /\ parts' = parts ]_vars

\* a part cached at one time has just been read at a later one, next to
\* another cached part
C26_Witness ==
    /\ ret.op = "get_part" /\ ret.value # Absent
    /\ Len(parts) = 2
    /\ ret.key \in DictKeys(parts)
    /\ EntryOf(parts, ret.key).access_count = 2
    /\ EntryOf(parts, ret.key).last_accessed = now
    /\ EntryOf(parts, ret.key).cached_at < now


(***************************************************************************)
(* RockAutoClient.clear_expired_caches                                     *)
(***************************************************************************)
\* default of the constructor's dropdown_cache_hours
DropdownCacheHours == 24

\* cached_time < cutoff, for a dropdown cache that is there
DropdownExpired(cached) ==
    cached.last_updated < now - DropdownCacheHours * MinutesPerHour

\* one dropdown cache after clear_expired_caches
DropdownKept(cached) ==
    IF cached # Absent /\ DropdownExpired(cached) THEN Absent ELSE cached

\* RockAutoClient.clear_expired_caches: the caches afterwards and the dict
\* returned
clear_expired_caches(cache, manufacturers, part_groups, part_types) ==
    LET gone(cached) == IF cached # Absent /\ DropdownExpired(cached) THEN 1 ELSE 0
        cleared == clear_expired(cache.parts, cache.vehicle_results)
    IN  [ parts |-> IF cache.has_cache THEN cleared.parts ELSE cache.parts,
          vehicle_results |-> IF cache.has_cache THEN cleared.results
                              ELSE cache.vehicle_results,
          manufacturer_cache |-> DropdownKept(manufacturers),
          part_group_cache |-> DropdownKept(part_groups),
          part_type_cache |-> DropdownKept(part_types),
          value |-> [ expired_parts |-> IF cache.has_cache THEN cleared.counts[1] ELSE 0,
                      expired_searches |-> IF cache.has_cache THEN cleared.counts[2] ELSE 0,
                      expired_dropdowns |-> gone(manufacturers) + gone(part_groups)
                                            + gone(part_types) ] ]

(***************************************************************************)
(* Specification SpecExpiry: a PartCache, a PricingCache and a client,     *)
(* each on its own, with the calls that clear them                         *)
(***************************************************************************)
\* the client's part cache when the clock starts: nothing, or what lookups
\* at that time have cached
ClearingInit ==
    /\ PureIdle /\ InfoIdle /\ PricingIdle /\ ConfigIdle /\ DropdownIdle
    /\ now = 0
    /\ cache_enabled \in BOOLEAN
    /\ has_cache = cache_enabled
    /\ parts \in { EmptyMap } \cup
                 ( IF has_cache
                   THEN { cache_part(EmptyMap, MaxCap, PartInfoOf("P1")),
                          cache_part(cache_part(EmptyMap, MaxCap, PartInfoOf("P1")),
                                     MaxCap, PartInfoOf("P2")) }
                   ELSE {} )
    /\ vehicle_results \in { EmptyMap } \cup
                 ( IF has_cache
                   THEN { cache_vehicle_result(EmptyMap, MaxCap, ResultOf("k1"), "k1") }
                   ELSE {} )
    /\ max_parts = MaxCap /\ max_results = MaxCap
    /\ half = "both"
    /\ is_authenticated = FALSE /\ user_email = None
    /\ cookies = InitialCookies
    /\ requests = 0
    /\ ret = NoRet

ClearExpiredCaches ==
    \E c \in { clear_expired_caches(CacheState, manufacturer_cache, part_group_cache,
                                    part_type_cache) } :
        /\ manufacturer_cache' = c.manufacturer_cache
        /\ part_group_cache' = c.part_group_cache
        /\ part_type_cache' = c.part_type_cache
        /\ parts' = c.parts
        /\ vehicle_results' = c.vehicle_results
        /\ ret' = [ op |-> "clear_expired_caches", value |-> c.value,
                    outcome |-> "return" ]
        /\ UNCHANGED <<pureVars, infoVars, now, max_parts, max_results, half,
                       pricingVars, cache_enabled, has_cache, configVars,
                       is_authenticated, user_email, cookies, requests>>

\* the clock of the client moves by the dropdown TTL as well
TickDay ==
    /\ now < DropdownCacheHours * MinutesPerHour
    /\ now' = now + DropdownCacheHours * MinutesPerHour
    /\ UNCHANGED <<pureVars, infoVars, partVars, pricingVars, clientVars, ret>>

\* which of the three objects the behaviour is about: Init decides
OnPartCache == half # "both"
OnPricing == half = "both" /\ cookies = {}
OnClient == half = "both" /\ cookies # {}

ExpiryInit == PartCacheInit \/ PricingInit \/ ClearingInit

ExpiryNext ==
    \/ OnPartCache /\ PartCacheNext
    \/ OnPricing /\ PricingNext
    \/ OnClient /\ ( \/ GetManufacturers \/ GetPartGroups \/ GetPartTypes
                     \/ ClearExpiredCaches \/ TickMinute \/ TickDay )

SpecExpiry == ExpiryInit /\ [][ExpiryNext]_vars

\* d2 holds the items of d1 whose key is not in gone, as they were and in
\* their order, and nothing else
Without(d1, d2, gone) == d2 = SelectSeq(d1, LAMBDA it : it.key \notin gone)

\* the keys a get would find expired, and delete, at this time
ExpiredParts == { k \in DictKeys(parts) : get_part(parts, k).value = Absent }
ExpiredResults ==
    { k \in DictKeys(vehicle_results) :
        get_vehicle_result(vehicle_results, k).value = Absent }
ExpiredPricing ==
    { k \in DictKeys(pricing_data) :
        get_pricing(pricing_data, k, ttl_minutes).value = Absent }

\* the dropdown caches that are there and older than the dropdown TTL
ExpiredDropdowns ==
    { c \in { <<"manufacturers", manufacturer_cache>>, <<"part_groups", part_group_cache>>,
              <<"part_types", part_type_cache>> } :
        c[2] # Absent /\ now - c[2].last_updated > DropdownCacheHours * MinutesPerHour }

\* a dropdown cache after the call: gone if it was expired, else as it was
DropdownCleared(name, before, after) ==
    after = IF \E c \in ExpiredDropdowns : c[1] = name THEN Absent ELSE before

C27_WitnessPricing ==
    /\ ret.op = "cleanup_expired" /\ ret.value = 1
    /\ Len(pricing_data) = 1

\* clear_expired_caches has just removed a dropdown cache and the cached
\* parts and left a newer dropdown cache
C27_WitnessClient ==
    /\ ret.op = "clear_expired_caches"
    /\ ret.value.expired_dropdowns = 1 /\ ret.value.expired_parts = 2
    /\ manufacturer_cache = Absent
    /\ part_group_cache # Absent


(***************************************************************************)
(* Specification SpecEvict: cache_pricing into pricing caches of up to     *)
(* ten entries                                                             *)
(***************************************************************************)
\* the most entries the cache holds before the insert
MaxEntries == 10

\* the part numbers in the order they were cached
CachedOrder == <<"P1", "Q2", "Q3", "Q4", "Q5", "Q6", "Q7", "Q8", "Q9", "Q10", "Q11">>

\* a PriceInfo whose current snapshot was collected at time t
PriceInfoAt(t) ==
    add_snapshot(NewPriceInfo(DefaultMaxHistory), [time_collected |-> t, price |-> Price1])

\* the caches: up to two entries with or without a snapshot, or nearly ten
\* entries with snapshots of two collection times
PricingCaches ==
    UNION { { [ i \in 1..n |-> [ key |-> CachedOrder[i], val |-> f[i] ] ] :
                f \in [ 1..n -> IF n <= 2
                                THEN { NewPriceInfo(DefaultMaxHistory), PriceInfoAt(0),
                                       PriceInfoAt(1) }
                                ELSE { PriceInfoAt(0), PriceInfoAt(1) } ] } :
            n \in (0..2) \cup ((MaxEntries - 1)..MaxEntries) }

\* a cache within its capacity, at a time after its snapshots were collected
EvictInit ==
    /\ PureIdle /\ InfoIdle /\ PartIdle /\ ClientIdle
    /\ now = 2
    /\ pricing_data \in PricingCaches
    /\ max_entries \in { m \in { Len(pricing_data), Len(pricing_data) + 1 } : m >= 1 }
    /\ ttl_minutes = 30
    /\ ret = NoRet

\* one cache_pricing call
EvictNext == ret.op = "none" /\ CachePricing

SpecEvict == EvictInit /\ [][EvictNext]_vars

\* the cache as cache_pricing has it after storing and before evicting
Stored == DictSet(pricing_data, ret'.key, ret'.value)

\* max(1, n // 5)
Batch(n) == IF n \div 5 > 1 THEN n \div 5 ELSE 1

QueryArgs ==
    { [ make |-> T_Honda, model |-> T_Civic, year |-> 2020,
        carcode |-> q[1], category_group_name |-> q[2] ] :
      q \in { << <<"c","1">>, <<"B","r","a","k","e">> >>,
              << <<"C","1">>, <<"B","R","A","K","E">> >>,
              << <<"c","1">>, <<>> >>,
              << <<>>, <<"c","1">> >> } }

\* the answers: a page with parts, a page without, a failure
QueryResponses ==
    [ status : {"ok"}, links : { <<>> }, items : FoundLists, payload : {"sections"} ]
    \cup [ status : {"http_error"}, links : { <<>> }, items : { <<>> },
           payload : {"not_json"} ]

QueriesInit ==
    /\ PureIdle /\ InfoIdle /\ PricingIdle /\ ConfigIdle /\ DropdownIdle
    /\ now = 0
    /\ cache_enabled = TRUE /\ has_cache = TRUE
    /\ parts = EmptyMap /\ vehicle_results = EmptyMap
    /\ max_parts = MaxCap /\ max_results = MaxCap
    /\ half = "both"
    /\ is_authenticated = FALSE /\ user_email = None
    /\ cookies = InitialCookies
    /\ requests = 0
    /\ ret = NoRet

QueryParts ==
    \E a \in QueryArgs, response \in QueryResponses :
    \E r \in { get_parts_by_category(CacheState, a.make, a.year, a.model, a.carcode,
                                     a.category_group_name, response) } :
        /\ requests + r.sent <= MaxFetches
        /\ \A i \in 1..Len(r.vehicle_results) :
               r.vehicle_results[i].val.access_count <= MaxAccess
        /\ parts' = r.parts
        /\ vehicle_results' = r.vehicle_results
        /\ requests' = requests + r.sent
        /\ ret' = [ op |-> "get_parts_by_category", value |-> r.value,
                    outcome |-> r.outcome, sent |-> r.sent, args |-> a ]
        /\ UNCHANGED <<now, cache_enabled, has_cache, max_parts, max_results>>
        /\ clientUnchanged

QueriesNext == QueryParts

SpecQueries == QueriesInit /\ [][QueriesNext]_vars

\* the result is one of a query with these arguments, up to letter case
ResultOfQuery(result, a) ==
    /\ SameTextUpToCase(result.make, a.make)
    /\ SameTextUpToCase(result.model, a.model)
    /\ result.year = a.year
    /\ SameTextUpToCase(result.carcode, a.carcode)
    /\ SameTextUpToCase(result.category, ReplacePlus(a.category_group_name))

\* C29: a VehiclePartsResult that get_parts_by_category serves from the
\* cache is the result of a query whose make, model, year, carcode and
\* category are the call's, up to letter case.
C29_HitIsOwnQuery ==
    (ret.op = "get_parts_by_category" /\ ret.outcome = "return" /\ ret.sent = 0)
    => ResultOfQuery(ret.value, ret.args)


(***************************************************************************)
(* Result envelopes: count and the list it counts                          *)
(* (RockAutoClient._parse_order_status_response, _extract_order_items)     *)
(***************************************************************************)
\* the longest table of an order status page
MaxRows == 3

\* a table row of the order status page, by what _extract_order_items makes
\* of it: fewer than three cells, three cells without a part number or a
\* price, a row whose first cell is a part number, a row with a price only
OrderRows == { "short", "blank", "item", "priced" }

\* the OrderItem _extract_order_items builds from a row
OrderItem(row) ==
    [ part_number |-> IF row = "item" THEN "PN" ELSE "Unknown",
      quantity |-> 1,
      unit_price |-> IF row = "priced" THEN "$1.00" ELSE "$0.00" ]

\* _extract_order_items: one item for every row of three or more cells that
\* has a part number or a price, in document order
_extract_order_items(rows) ==
    LET meaningful == SelectSeq(rows, LAMBDA row : row \in {"item", "priced"})
    IN  [ i \in 1..Len(meaningful) |-> OrderItem(meaningful[i]) ]

\* _is_real_order_data: massive says that status or order_date is longer
\* than 1000 characters
_is_real_order_data(order_status, massive, has_billing) ==
    /\ ~massive
    /\ order_status.item_count > 0 \/ has_billing
       \/ order_status.status \notin {"Unknown", "unknown", ""}

\* the mutant returns the OrderStatus as constructed, item_count=0
_parse_order_status_response_NoUpdate(page, order_number) ==
    LET items == _extract_order_items(page.rows)
        order_status == [ status |-> page.status_text, order_number |-> order_number,
                          items |-> items, item_count |-> 0 ]
    IN  IF ~page.has_order THEN Absent
        ELSE IF ~_is_real_order_data([ order_status EXCEPT !.item_count = Len(items) ],
                                     page.massive, page.has_billing) THEN Absent
        ELSE order_status

\* page.has_order: an order container or the order number is in the page;
\* the OrderStatus returned, or Absent for None
_parse_order_status_response(page, order_number) ==
    LET items == _extract_order_items(page.rows)
        order_status == [ status |-> page.status_text, order_number |-> order_number,
                          items |-> items, item_count |-> Len(items) ]
    IN  IF ~page.has_order THEN Absent
        ELSE IF ~_is_real_order_data(order_status, page.massive, page.has_billing) THEN Absent
        ELSE order_status

\* the result pages the order status form may answer with
OrderPages ==
    [ rows : SeqUpTo(OrderRows, MaxRows), massive : BOOLEAN,
      has_billing : BOOLEAN, status_text : {"Unknown", "Shipped"}, has_order : BOOLEAN ]

(***************************************************************************)
(* Specification SpecEnvelopes: the deep lookups of SpecLookup and the     *)
(* parsing of an order status page, against the pages the site may answer  *)
(* with                                                                    *)
(***************************************************************************)
ParseOrderStatus ==
    \E page \in OrderPages :
    \E order_status \in { _parse_order_status_response(page, <<"1","2","3">>) } :
        /\ requests + 1 <= MaxFetches
        /\ requests' = requests + 1
        /\ ret' = [ op |-> "lookup_order_status", value |-> order_status,
                    error |-> None, outcome |-> "return", sent |-> 1,
                    posts |-> <<>>, captcha |-> FALSE, seen |-> page.rows ]
        /\ UNCHANGED <<now, cache_enabled, has_cache, max_parts, max_results,
                       parts, vehicle_results>>
        /\ clientUnchanged

EnvelopesNext == LookupCategories \/ LookupParts \/ ParseOrderStatus

SpecEnvelopes == LookupInit /\ [][EnvelopesNext]_vars

C21_WitnessOrder ==
    /\ ret.op = "lookup_order_status" /\ ret.value # Absent
    /\ Len(ret.seen) = 3
    /\ ret.value.item_count = 2


(***************************************************************************)
(* Part extraction from markup (PartExtractor.extract_from_element,        *)
(* PartExtractor.extract_from_table_row)                                   *)
(***************************************************************************)
UpperSet == { UpperAlpha[i] : i \in 1..Len(UpperAlpha) }

LowerSet == { LowerAlpha[i] : i \in 1..Len(LowerAlpha) }

IsSpace(c) == c \in {" ", "\t", "\n"}

\* str.strip(), as get_text(strip=True) applies it to the one string of a node
RECURSIVE LStrip(_)
LStrip(s) == IF Len(s) > 0 /\ IsSpace(Head(s)) THEN LStrip(Tail(s)) ELSE s

RECURSIVE RStrip(_)
RStrip(s) ==
    IF Len(s) > 0 /\ IsSpace(s[Len(s)]) THEN RStrip(SubSeq(s, 1, Len(s) - 1)) ELSE s

Strip(s) == RStrip(LStrip(s))

\* [A-Z0-9\-], with re.IGNORECASE when ignorecase
PartChar(c, ignorecase) ==
    c \in UpperSet \cup Digits \cup {"-"} \/ (ignorecase /\ c \in LowerSet)

\* [A-Z], with re.IGNORECASE when ignorecase
Letter(c, ignorecase) == c \in UpperSet \/ (ignorecase /\ c \in LowerSet)

\* \w at place i of s; no character outside s is a word character
WordAt(s, i) == i \in 1..Len(s) /\ s[i] \in UpperSet \cup LowerSet \cup Digits \cup {"_"}

\* \b just before place i of s
Boundary(s, i) == WordAt(s, i - 1) # WordAt(s, i)

\* the result of re.search when nothing matches
NoMatch == <<>>

\* what re.search returns of the spans <<first, last>> a pattern can match:
\* the leftmost, and of those the longest, as every quantifier is greedy
Leftmost(matches) ==
    IF matches = {} THEN NoMatch
    ELSE CHOOSE m \in matches :
             \A n \in matches : m[1] < n[1] \/ (m[1] = n[1] /\ m[2] >= n[2])

Spans(s) == { <<i, j>> : i \in 1..Len(s), j \in 1..Len(s) }

\* \b([A-Z0-9\-]{6,})\b
LongCode(s, ignorecase) ==
    Leftmost({ m \in Spans(s) :
        /\ m[2] - m[1] + 1 >= 6
        /\ \A k \in m[1]..m[2] : PartChar(s[k], ignorecase)
        /\ Boundary(s, m[1]) /\ Boundary(s, m[2] + 1) })

\* \b([A-Z]{2,}[0-9]{3,}[A-Z0-9\-]*)\b when letters_first,
\* \b([0-9]{3,}[A-Z]{2,}[A-Z0-9\-]*)\b otherwise
TwoRuns(s, ignorecase, letters_first) ==
    Leftmost({ m \in Spans(s) :
        /\ Boundary(s, m[1]) /\ Boundary(s, m[2] + 1)
        /\ \E a \in m[1]..(m[2] + 1) : \E b \in a..(m[2] + 1) :
            /\ a - m[1] >= (IF letters_first THEN 2 ELSE 3)
            /\ b - a >= (IF letters_first THEN 3 ELSE 2)
            /\ \A k \in m[1]..(a - 1) :
                   IF letters_first THEN Letter(s[k], ignorecase) ELSE s[k] \in Digits
            /\ \A k \in a..(b - 1) :
                   IF letters_first THEN s[k] \in Digits ELSE Letter(s[k], ignorecase)
            /\ \A k \in b..m[2] : PartChar(s[k], ignorecase) })

\* the first place at or after i that holds no white space
RECURSIVE SkipSpace(_, _)
SkipSpace(s, i) == IF i <= Len(s) /\ IsSpace(s[i]) THEN SkipSpace(s, i + 1) ELSE i

\* the first place at or after i that holds no [A-Z0-9\-]
RECURSIVE PartRun(_, _, _)
PartRun(s, i, ignorecase) ==
    IF i <= Len(s) /\ PartChar(s[i], ignorecase) THEN PartRun(s, i + 1, ignorecase) ELSE i

\* (?:Part|P/N|PN|#)
PartLabels == { <<"P","a","r","t">>, <<"P","/","N">>, <<"P","N">>, <<"#">> }

\* (?:Part|P/N|PN|#)\s*:?\s*([A-Z0-9\-]{4,}) with re.IGNORECASE: the span of
\* the group for the leftmost label that is followed by one
Labelled(s) ==
    LET group(p, label) ==
            LET c == SkipSpace(s, p + Len(label))
                d == IF c <= Len(s) /\ s[c] = ":" THEN SkipSpace(s, c + 1) ELSE c
            IN  <<d, PartRun(s, d, TRUE) - 1>>
        found == { <<p, label>> \in (1..Len(s)) \X PartLabels :
                     /\ p + Len(label) - 1 <= Len(s)
                     /\ Lower(SubSeq(s, p, p + Len(label) - 1)) = Lower(label)
                     /\ group(p, label)[2] - group(p, label)[1] + 1 >= 4 }
    IN  IF found = {} THEN NoMatch
        ELSE LET first == CHOOSE f \in found : \A g \in found : f[1] <= g[1]
             IN  group(first[1], first[2])

\* match.group(1)
Group(s, m) == SubSeq(s, m[1], m[2])

HasDigit(t) == \E i \in 1..Len(t) : t[i] \in Digits

\* "Unknown"
T_Unknown == <<"U","n","k","n","o","w","n">>

\* PART_NUMBER_PATTERNS, each searched with re.IGNORECASE, in order
PartNumberMatches(text) ==
    << Labelled(text), TwoRuns(text, TRUE, TRUE), TwoRuns(text, TRUE, FALSE),
       LongCode(text, TRUE) >>

\* the loop over PART_NUMBER_PATTERNS: the first match that holds a digit
\* and is four characters or longer
RECURSIVE FirstAccepted(_, _)
FirstAccepted(text, matches) ==
    IF Len(matches) = 0 THEN T_Unknown
    ELSE IF Head(matches) # NoMatch
            /\ HasDigit(Group(text, Head(matches)))
            /\ Len(Group(text, Head(matches))) >= 4
    THEN Group(text, Head(matches))
    ELSE FirstAccepted(text, Tail(matches))

\* the words that mark a navigation element
NavWords ==
    { <<"s","h","o","w">>, <<"h","i","d","e">>, <<"e","x","p","a","n","d">>,
      <<"c","o","l","l","a","p","s","e">>, <<"t","o","g","g","l","e">> }

\* the mutant has no try block: an element that is None raises
extract_from_element_NoTry(element) ==
    IF ~element.ok THEN [ value |-> Absent, outcome |-> "raise" ]
    ELSE LET text == Strip(element.text)
         IN  IF Len(text) < 3 THEN [ value |-> Absent, outcome |-> "return" ]
             ELSE IF \E nav_word \in NavWords : Contains(nav_word, Lower(text))
             THEN [ value |-> Absent, outcome |-> "return" ]
             ELSE [ value |-> [ part_number |-> FirstAccepted(text, PartNumberMatches(text)) ],
                    outcome |-> "return" ]

\* element.ok is false for an element whose get_text raises (None); of the
\* PartInfo returned the part number is kept
extract_from_element(element) ==
    IF ~element.ok THEN [ value |-> Absent, outcome |-> "return" ]
    ELSE LET text == Strip(element.text)
         IN  IF Len(text) < 3 THEN [ value |-> Absent, outcome |-> "return" ]
             ELSE IF \E nav_word \in NavWords : Contains(nav_word, Lower(text))
             THEN [ value |-> Absent, outcome |-> "return" ]
             ELSE [ value |-> [ part_number |-> FirstAccepted(text, PartNumberMatches(text)) ],
                    outcome |-> "return" ]

\* PRICE_PATTERNS[0], \$([0-9,]+\.?[0-9]*): the span of the group
PriceMatch(s) ==
    LET digits(i) == CHOOSE j \in i..(Len(s) + 1) :
                         /\ \A k \in i..(j - 1) : s[k] \in Digits
                         /\ j > Len(s) \/ s[j] \notin Digits
        amount(i) == CHOOSE j \in i..(Len(s) + 1) :
                         /\ \A k \in i..(j - 1) : s[k] \in Digits \cup {","}
                         /\ j > Len(s) \/ s[j] \notin Digits \cup {","}
        starts == { i \in 1..(Len(s) - 1) : s[i] = "$" /\ s[i + 1] \in Digits \cup {","} }
    IN  IF starts = {} THEN NoMatch
        ELSE LET i == CHOOSE x \in starts : \A y \in starts : x <= y
                 a == amount(i + 1)
             IN  IF a <= Len(s) /\ s[a] = "." THEN <<i + 1, digits(a + 1) - 1>>
                 ELSE <<i + 1, a - 1>>

\* the first cell text that has what `found` looks for, or NoMatch
FirstCell(cell_texts, found(_)) ==
    LET hits == SelectSeq(cell_texts, found)
    IN  IF Len(hits) = 0 THEN NoMatch ELSE <<hits[1]>>

\* row_ok is false for a row whose find_all raises (None), a cell that is
\* not ok is one whose get_text raises; of the PartInfo returned the part
\* number and the price are kept
extract_from_table_row(row_ok, cells) ==
    LET cell_texts == [ i \in 1..Len(cells) |-> Strip(cells[i].text) ]
        priced == FirstCell(cell_texts, LAMBDA t : PriceMatch(t) # NoMatch)
        price == IF priced = NoMatch THEN None
                 ELSE <<"$">> \o Group(priced[1], PriceMatch(priced[1]))
        coded == FirstCell(cell_texts,
                           LAMBDA t : LongCode(t, FALSE) # NoMatch /\ ~Contains(<<"$">>, t))
        part_number == IF coded = NoMatch THEN T_Unknown
                       ELSE Group(coded[1], LongCode(coded[1], FALSE))
    IN  IF \E i \in 1..Len(cells) : ~cells[i].ok
        THEN [ value |-> Absent, outcome |-> "return" ]
        ELSE IF ~row_ok THEN [ value |-> Absent, outcome |-> "return" ]
        ELSE IF price # None \/ part_number # T_Unknown
        THEN [ value |-> [ part_number |-> part_number, price |-> price ],
               outcome |-> "return" ]
        ELSE [ value |-> Absent, outcome |-> "return" ]


(***************************************************************************)
(* Specification SpecExtract: one call of an extractor on an element or a  *)
(* table row                                                               *)
(***************************************************************************)
\* the longest generated text of an element or cell
MaxTextLen == 6

\* the most cells of a generated row of several cells
MaxCells == 3

\* a letter, a digit, the dash, white space and the dollar sign
Alphabet == { "A", "1", "-", " ", "$" }

\* texts with a label, lower case, a navigation word, two words
SampleTexts ==
    { <<"h","e","l","l","o"," ","w","o","r","l","d">>,
      <<"P","N","1","2","3","4">>,
      <<"p","a","r","t",":"," ","a","b","1","2">>,
      <<"#","A","B","C","D">>,
      <<"s","h","o","w"," ","A","B","1","2","3">>,
      <<"C","E","R","A","M","I","C"," ","1","2","-","3","4","5">> }

Texts == SeqUpTo(Alphabet, MaxTextLen) \cup SampleTexts

\* a node of the page: ok is false for None
Node(text) == [ text |-> text, ok |-> TRUE ]

MissingNode == [ text |-> <<>>, ok |-> FALSE ]

\* the cells of the rows of several cells
SampleCells ==
    { MissingNode, Node(<<>>), Node(<<" "," ">>), Node(<<"$","1">>),
      Node(<<"C","E","R","A","M","I","C">>), Node(<<"A","B","-","1","2","3">>) }

ExtractCalls ==
    [ row_ok : {TRUE}, cells : { <<Node(t)>> : t \in Texts } \cup { <<MissingNode>> },
      fn : {"extract_from_element", "extract_from_table_row"} ]
    \cup [ row_ok : BOOLEAN, cells : { c \in SeqUpTo(SampleCells, MaxCells) : Len(c) # 1 },
           fn : {"extract_from_table_row"} ]

ExtractInit ==
    /\ InfoIdle /\ PartIdle /\ PricingIdle /\ ClientIdle
    /\ now = 0
    /\ arg \in ExtractCalls
    /\ out = NotRun
    /\ ret = NoRet

ExtractFromElement ==
    /\ ret.op = "none"
    /\ arg.fn = "extract_from_element"
    /\ \E r \in { extract_from_element(arg.cells[1]) } :
        ret' = [ op |-> "extract_from_element", value |-> r.value, outcome |-> r.outcome ]
    /\ UNCHANGED <<pureVars, infoVars, now, partVars, pricingVars, clientVars>>

ExtractFromTableRow ==
    /\ ret.op = "none"
    /\ arg.fn = "extract_from_table_row"
    /\ \E r \in { extract_from_table_row(arg.row_ok, arg.cells) } :
        ret' = [ op |-> "extract_from_table_row", value |-> r.value, outcome |-> r.outcome ]
    /\ UNCHANGED <<pureVars, infoVars, now, partVars, pricingVars, clientVars>>

ExtractNext == ExtractFromElement \/ ExtractFromTableRow

SpecExtract == ExtractInit /\ [][ExtractNext]_vars

Extractors == { "extract_from_element", "extract_from_table_row" }

\* a part number that holds a digit and is four characters or longer
DigitAndFour(part_number) == HasDigit(part_number) /\ Len(part_number) >= 4

\* C22: every part number either extractor produces is "Unknown" or holds
\* a digit and is four characters or longer.
C22_PartNumberHasDigit ==
    ret.op \in Extractors /\ ret.value # Absent
        => ret.value.part_number = T_Unknown \/ DigitAndFour(ret.value.part_number)

\* the same of extract_from_element alone
C22_ElementPartNumberHasDigit ==
    ret.op = "extract_from_element" /\ ret.value # Absent
        => ret.value.part_number = T_Unknown \/ DigitAndFour(ret.value.part_number)

\* the text of the element or row passed: the stripped texts of its nodes,
\* joined
RECURSIVE TextOf(_)
TextOf(cells) ==
    IF Len(cells) = 0 THEN <<>> ELSE Strip(Head(cells).text) \o TextOf(Tail(cells))

C23_WitnessMissing ==
    /\ ret.op = "extract_from_element" /\ ret.outcome = "return"
    /\ arg.cells = <<MissingNode>>
    /\ ret.value = Absent

\* a row of three cells of white space yields absent
C23_WitnessRow ==
    /\ ret.op = "extract_from_table_row" /\ ret.outcome = "return"
    /\ arg.cells = <<Node(<<" "," ">>), Node(<<>>), Node(<<" "," ">>)>>
    /\ arg.row_ok
    /\ ret.value = Absent


(***************************************************************************)
(* The enhanced cache (StaticPartCache, EnhancedPartCache search results)  *)
(***************************************************************************)
\* StaticPartCache.ttl_hours, the default
StaticTtlHours == 168

\* EnhancedPartCache.search_cache_ttl_hours, the default
SearchCacheTtlHours == 2

\* StaticPartCache.cache_part and cache_tool: the dict afterwards
StaticPartCache_cache(d, info_) == DictSet(d, info_.part_number, info_)

\* StaticPartCache.get_part and get_tool: self.parts.get(part_number),
\* self.tools.get(part_number)
StaticPartCache_get(d, part_number) ==
    IF part_number \in DictKeys(d) THEN DictGet(d, part_number) ELSE Absent

\* StaticPartCache.is_expired; the cache is created when the clock reads 0
StaticPartCache_is_expired(ttl_hours) == now - 0 > ttl_hours * MinutesPerHour

\* EnhancedPartCache.cache_search_result: the dict afterwards
cache_search_result(d, cache_key, result) == DictSet(d, cache_key, result)

\* EnhancedPartCache.get_search_result: the stored result if there is one
get_search_result(d, cache_key) ==
    IF cache_key \in DictKeys(d) THEN DictGet(d, cache_key) ELSE Absent

(***************************************************************************)
(* Specification SpecEnhanced: one EnhancedPartCache created at time 0;    *)
(* `parts` is the dict of the static cache named by `half` (parts or       *)
(* tools), `vehicle_results` is search_results_cache, and `added` records  *)
(* when each search result was stored, which the cache itself does not     *)
(***************************************************************************)
EnhancedInit ==
    /\ PureIdle /\ PricingIdle /\ DropdownIdle
    /\ info = [current_snapshot |-> Absent, price_history |-> <<>>,
               max_history_entries |-> 50]
    /\ added = EmptyMap
    /\ parts = EmptyMap /\ vehicle_results = EmptyMap
    /\ max_parts = 1000 /\ max_results = 100
    /\ half \in {"parts", "tools", "search"}
    /\ part_ttl_hours = StaticTtlHours
    /\ result_ttl_hours = SearchCacheTtlHours
    /\ cache_enabled = TRUE /\ has_cache = TRUE
    /\ is_authenticated = FALSE /\ user_email = None
    /\ cookies = {} /\ requests = 0
    /\ now = 0 /\ ret = NoRet

enhancedUnchanged ==
    UNCHANGED <<pureVars, info, max_parts, max_results, half, pricingVars, clientVars>>

CacheSearchResult ==
    \E cache_key \in ResultKeys :
        /\ half = "search"
        /\ vehicle_results' = cache_search_result(vehicle_results, cache_key, ResultOf(cache_key))
        /\ added' = DictSet(added, cache_key, now)
        /\ ret' = [op |-> "cache_search_result", key |-> cache_key, value |-> Absent]
        /\ UNCHANGED <<now, parts>> /\ enhancedUnchanged

GetSearchResult ==
    \E cache_key \in ResultKeys :
        /\ half = "search"
        /\ ret' = [op |-> "get_search_result", key |-> cache_key,
                   value |-> get_search_result(vehicle_results, cache_key)]
        /\ UNCHANGED <<now, parts, vehicle_results, added>> /\ enhancedUnchanged

\* cache_part on the static cache, or cache_tool
CacheStatic ==
    \E pn \in PartNumbers :
        /\ half \in {"parts", "tools"}
        /\ parts' = StaticPartCache_cache(parts, PartInfoOf(pn))
        /\ ret' = [op |-> IF half = "parts" THEN "cache_part" ELSE "cache_tool",
                   key |-> pn, value |-> Absent]
        /\ UNCHANGED <<now, vehicle_results, added>> /\ enhancedUnchanged

\* get_part on the static cache, or get_tool
GetStatic ==
    \E pn \in PartNumbers :
        /\ half \in {"parts", "tools"}
        /\ ret' = [op |-> IF half = "parts" THEN "get_part" ELSE "get_tool",
                   key |-> pn, value |-> StaticPartCache_get(parts, pn)]
        /\ UNCHANGED <<now, parts, vehicle_results, added>> /\ enhancedUnchanged

\* the clock moves by a minute, by the TTL of the search results, or by the
\* TTL of the static cache
Elapse(minutes) ==
    /\ now' = now + minutes
    /\ UNCHANGED <<parts, vehicle_results, added, ret>> /\ enhancedUnchanged

ElapseMinute == now % MinutesPerHour < MaxMinuteTicks /\ Elapse(1)

ElapseSearchTtl ==
    /\ now % (StaticTtlHours * MinutesPerHour) < SearchCacheTtlHours * MinutesPerHour
    /\ Elapse(SearchCacheTtlHours * MinutesPerHour)

ElapseStaticTtl ==
    /\ now < StaticTtlHours * MinutesPerHour
    /\ Elapse(StaticTtlHours * MinutesPerHour)

EnhancedNext ==
    \/ CacheSearchResult \/ GetSearchResult \/ CacheStatic \/ GetStatic
    \/ ElapseMinute \/ ElapseSearchTtl \/ ElapseStaticTtl

SpecEnhanced == EnhancedInit /\ [][EnhancedNext]_vars

\* the search result under cache_key was stored more than the TTL ago
SearchResultExpired(cache_key) ==
    /\ cache_key \in DictKeys(added)
    /\ now - DictGet(added, cache_key) > result_ttl_hours * MinutesPerHour

\* C28: get_search_result returns absent for a search result stored more
\* than search_cache_ttl_hours ago, and get_part / get_tool of the static
\* cache return absent once its ttl_hours has elapsed.
C28_ExpiredIsAbsent ==
    [][ /\ IsCall("get_search_result") /\ SearchResultExpired(ret'.key)
            => ret'.value = Absent
        /\ (IsCall("get_part") \/ IsCall("get_tool"))
             /\ StaticPartCache_is_expired(part_ttl_hours)
            => ret'.value = Absent ]_vars

\* the same of the search results alone
C28_ExpiredSearchIsAbsent ==
    [][ IsCall("get_search_result") /\ SearchResultExpired(ret'.key)
            => ret'.value = Absent ]_vars

\* the same of the static cache alone
C28_ExpiredStaticIsAbsent ==
    [][ (IsCall("get_part") \/ IsCall("get_tool"))
             /\ StaticPartCache_is_expired(part_ttl_hours)
            => ret'.value = Absent ]_vars

====
